---- MODULE Spec2Model ----
(***************************************************************************)
(* Financial document lifecycle and balance reconciliation of the FinWall  *)
(* invoicing backend: invoices, payments and quotes of several             *)
(* organizations, driven through the API routes of backend/app/api/v1 and  *)
(* the service methods of backend/app/services.                            *)
(*                                                                         *)
(* Money is held in hundredths (Numeric(15,2) columns), quantities in      *)
(* thousandths (Numeric(10,3)), tax rates in hundredths of a percent.      *)
(* Row ids are positions in the table sequences; rows are never removed.   *)
(* Timestamps are values of the clock `now`, whose unit is the resolution  *)
(* of the DATETIME columns: requests served within one unit write equal    *)
(* timestamps.  0 stands for NULL.                                         *)
(***************************************************************************)
EXTENDS Integers, Sequences, FiniteSets, TLC

VARIABLES customers, items, taxes, invoices, payments, quotes, now, op, result, before,
          sessions, expenses

vars == <<customers, items, taxes, invoices, payments, quotes, now, op, result, before,
          sessions, expenses>>

(* ---------------------------- bounds ---------------------------------- *)

MaxInvoices == 1

MaxPayments == 2

MaxQuotes == 1

\* Invoices created in a row when numbering is examined.
MaxNumbered == 3

\* Greatest line rate (hundredths) given to the line item calculation.
MaxLineRate == 30

\* Longest line list of a create request when totals are examined.
MaxLines == 3

MaxExpenses == 1

\* Customer rows, those of CustomerFixture included.
MaxCustomers == 4

(* -------------------------- program constants ------------------------- *)

NumberWidth == 5

Orgs == {1, 2}

Users == {1}

Reasons == {"reason"}

NoRow == [status |-> "NONE"]

NoOp == [name |-> "none"]

\* Database sessions (get_db): one per request in progress.
Sessions == {1, 2}

\* A session that serves no request.
Idle == [pc |-> "idle"]

InvoiceStatuses == {"DRAFT", "SENT", "VIEWED", "PARTIALLY_PAID", "PAID", "OVERDUE", "VOID"}

QuoteStatuses == {"DRAFT", "SENT", "VIEWED", "ACCEPTED", "REJECTED", "EXPIRED", "CONVERTED"}

(* ------------------------------ catalog ------------------------------- *)

\* Customer rows present before the first document is created; email ""
\* stands for NULL.
CustomerFixture ==
  << [organization_id |-> 1, is_deleted |-> FALSE, is_active |-> TRUE,
      currency_code |-> "INR", payment_terms_days |-> 30, email |-> ""],
     [organization_id |-> 2, is_deleted |-> FALSE, is_active |-> TRUE,
      currency_code |-> "INR", payment_terms_days |-> 15, email |-> ""],
     [organization_id |-> 1, is_deleted |-> TRUE, is_active |-> FALSE,
      currency_code |-> "INR", payment_terms_days |-> 30, email |-> ""] >>

\* Organization 2 keeps a catalog item, organization 1 a tax rate.
ItemFixture ==
  << [organization_id |-> 2, is_deleted |-> FALSE, is_active |-> TRUE, rate |-> 2] >>

\* rate 5000 = 50.00 %
TaxFixture ==
  << [organization_id |-> 1, is_deleted |-> FALSE, is_active |-> TRUE, rate |-> 5000] >>

(* --------------------------- pure helpers ----------------------------- *)

RECURSIVE SumSeq(_)
SumSeq(s) == IF s = <<>> THEN 0 ELSE Head(s) + SumSeq(Tail(s))

\* Decimal.quantize under the default context rounding (ROUND_HALF_EVEN):
\* n / d rounded to an integer, n >= 0, d > 0.
Quantize(n, d) ==
  LET q == n \div d
      r == n % d
  IN  IF 2 * r > d THEN q + 1
      ELSE IF 2 * r < d THEN q
      ELSE IF q % 2 = 0 THEN q ELSE q + 1

\* InvoiceService._calculate_line_item: quantity in thousandths, rate in
\* hundredths, tax_rate in hundredths of a percent; results in hundredths.
calculate_line_item(quantity, rate, tax_rate) ==
  LET amount     == Quantize(quantity * rate, 1000)
      tax_amount == Quantize(amount * tax_rate, 10000)
      total      == Quantize(amount + tax_amount, 1)
  IN  [amount |-> amount, tax_amount |-> tax_amount, total |-> total]

\* Mutant: the tax is taken from the product before it is rounded.
quote_calculate_line_item_UnroundedBase(quantity, rate, tax_rate) ==
  LET amount     == Quantize(quantity * rate, 1000)
      tax_amount == Quantize(quantity * rate * tax_rate, 10000000)
      total      == amount + tax_amount
  IN  [amount |-> amount, tax_amount |-> tax_amount, total |-> total]

\* QuoteService._calculate_line_item, in the same units.
quote_calculate_line_item(quantity, rate, tax_rate) ==
  LET amount     == Quantize(quantity * rate, 1000)
      tax_amount == Quantize(amount * tax_rate, 10000)
      total      == Quantize(amount + tax_amount, 1)
  IN  [amount |-> amount, tax_amount |-> tax_amount, total |-> total]

RECURSIVE DigitsOf(_)
DigitsOf(n) == IF n < 10 THEN <<n>> ELSE Append(DigitsOf(n \div 10), n % 10)

RECURSIVE ZeroPad(_, _)
ZeroPad(ds, width) == IF Len(ds) >= width THEN ds ELSE ZeroPad(<<0>> \o ds, width)

\* f"{prefix}-{num:05d}"
FormatNumber(prefix, num) == [prefix |-> prefix, digits |-> ZeroPad(DigitsOf(num), NumberWidth)]

RECURSIVE DigitsValue(_)
DigitsValue(ds) ==
  IF ds = <<>> THEN 0 ELSE 10 * DigitsValue(SubSeq(ds, 1, Len(ds) - 1)) + ds[Len(ds)]

\* order_by(created_at.desc()).limit(1): the rows of the organization the
\* query may return.  Rows with the same created_at are in no defined order,
\* so any row carrying the greatest created_at can be the one returned.
LastRows(rows, org) ==
  LET mine == {i \in 1..Len(rows) : rows[i].organization_id = org}
  IN  {i \in mine : \A j \in mine : rows[j].created_at <= rows[i].created_at}

\* int(last_number.split("-")[1]) + 1, or 1 when there is no last number:
\* the set of numbers the generator can produce.
NextNumber(rows, org, field) ==
  IF LastRows(rows, org) = {} THEN {1}
  ELSE {DigitsValue(rows[last][field].digits) + 1 : last \in LastRows(rows, org)}

generate_invoice_number(org) ==
  {FormatNumber("INV", num) : num \in NextNumber(invoices, org, "invoice_number")}

generate_payment_number(org) ==
  {FormatNumber("PAY", num) : num \in NextNumber(payments, org, "payment_number")}

generate_quote_number(org) ==
  {FormatNumber("QT", num) : num \in NextNumber(quotes, org, "quote_number")}

(* --------------------------- call inputs ------------------------------ *)

\* Line inputs of a create request: item_id / tax_id 0 stands for "not given".
\* 1.000 x 0.02 of catalog item 1, untaxed (total 0.02); 2.500 x 0.01 (a
\* half-cent amount) under tax 1 (total 0.03).
LineChoices ==
  { [item_id |-> 1, quantity |-> 1000, rate |-> 2, tax_id |-> 0],
    [item_id |-> 0, quantity |-> 2500, rate |-> 1, tax_id |-> 1] }

\* Request bodies: the line lists a create request may carry.
LineLists == { <<l>> : l \in LineChoices }

\* Two instants tell a rewritten timestamp from a kept one.
Times == {1, 2}

\* (document date, due / expiry date) pairs of create requests.
InvoiceDatePairs == {<<1, 1>>, <<2, 1>>}

QuoteDatePairs == {<<1, 1>>, <<2, 1>>, <<1, 2>>}

CustomerIds == 1..Len(CustomerFixture)

InvoiceIds == 1..MaxInvoices

PaymentIds == 1..MaxPayments

QuoteIds == 1..MaxQuotes

Amounts == {1, 2}

\* Addresses a customer request may carry: two spellings of one mailbox,
\* another mailbox, and "" for none.
Emails == {"a@x.io", "A@x.io", "b@x.io"}

\* Bodies of PATCH /customers/{id}.
CustomerUpdates ==
  {[fields |-> {"email"}, email |-> e, is_active |-> TRUE] : e \in Emails \cup {""}}
    \cup {[fields |-> {"is_active"}, email |-> "", is_active |-> b] : b \in BOOLEAN}

\* Bodies of POST /expenses: 0.01 without tax.
ExpenseCreates ==
  {[is_billable |-> b, customer_id |-> c, amount |-> 1, tax_amount |-> 0] :
     b \in BOOLEAN, c \in {0} \cup CustomerIds}

\* Bodies of PATCH /expenses/{id} that carry is_billable, customer_id (0:
\* null) or both.
ExpenseUpdates ==
  {[fields |-> {"is_billable"}, is_billable |-> b, customer_id |-> 0] : b \in BOOLEAN}
    \cup {[fields |-> {"customer_id"}, is_billable |-> FALSE, customer_id |-> c] :
            c \in {0} \cup CustomerIds}
    \cup {[fields |-> {"is_billable", "customer_id"}, is_billable |-> b, customer_id |-> c] :
            b \in BOOLEAN, c \in {0} \cup CustomerIds}

\* External payment identifiers a gateway may send.
GatewayPaymentIds == {"pay_A", "pay_B"}

\* Line item inputs of the calculation: quantities (thousandths) with whole,
\* half-cent and odd products, rates (hundredths) from 0, tax rates
\* (hundredths of a percent) from 0 to 100.00.
LineQuantities == {1, 10, 100, 250, 500, 999, 1000, 1500, 2500, 3333, 12345}

LineRates == 0..MaxLineRate

LineTaxRates == {0, 1, 49, 50, 51, 500, 1250, 1800, 2800, 5000, 9999, 10000}

(* ------------------------------ lookups ------------------------------- *)

\* select(Customer) by id, organization and is_deleted == False
FindCustomer(cid, org) ==
  /\ cid \in 1..Len(customers)
  /\ customers[cid].organization_id = org
  /\ customers[cid].is_deleted = FALSE

FindItem(iid, org) ==
  /\ iid \in 1..Len(items)
  /\ items[iid].organization_id = org
  /\ items[iid].is_deleted = FALSE

FindTax(tid, org) ==
  /\ tid \in 1..Len(taxes)
  /\ taxes[tid].organization_id = org
  /\ taxes[tid].is_deleted = FALSE

get_invoice_by_id(id, org) ==
  /\ id \in 1..Len(invoices)
  /\ invoices[id].organization_id = org
  /\ invoices[id].is_deleted = FALSE

get_payment_by_id(id, org) ==
  /\ id \in 1..Len(payments)
  /\ payments[id].organization_id = org

get_quote_by_id(id, org) ==
  /\ id \in 1..Len(quotes)
  /\ quotes[id].organization_id = org
  /\ quotes[id].is_deleted = FALSE

(* ------------------------- line item pipeline ------------------------- *)

LineResolves(line, org) ==
  /\ line.item_id # 0 => FindItem(line.item_id, org)
  /\ line.tax_id # 0 => FindTax(line.tax_id, org)

\* One entry of calculated_items: the snapshot stored as a line item row.
CalculatedItem(line, idx) ==
  LET tax_rate == IF line.tax_id # 0 THEN taxes[line.tax_id].rate ELSE 0
      calc     == calculate_line_item(line.quantity, line.rate, tax_rate)
  IN  [item_id |-> line.item_id, quantity |-> line.quantity, rate |-> line.rate,
       amount |-> calc.amount, tax_id |-> line.tax_id, tax_rate |-> tax_rate,
       tax_amount |-> calc.tax_amount, total |-> calc.total, sort_order |-> idx - 1]

CalculatedItems(lines) == [k \in 1..Len(lines) |-> CalculatedItem(lines[k], k)]

\* The same for a quote line (quote_service.py:201-223).
QuoteCalculatedItem(line, idx) ==
  LET tax_rate == IF line.tax_id # 0 THEN taxes[line.tax_id].rate ELSE 0
      calc     == quote_calculate_line_item(line.quantity, line.rate, tax_rate)
  IN  [item_id |-> line.item_id, quantity |-> line.quantity, rate |-> line.rate,
       amount |-> calc.amount, tax_id |-> line.tax_id, tax_rate |-> tax_rate,
       tax_amount |-> calc.tax_amount, total |-> calc.total, sort_order |-> idx - 1]

QuoteCalculatedItems(lines) == [k \in 1..Len(lines) |-> QuoteCalculatedItem(lines[k], k)]

\* Mutant: the subtotal adds up the line totals, tax included.
Subtotal_LineTotals(calculated) == SumSeq([k \in 1..Len(calculated) |-> calculated[k].total])

Subtotal(calculated) == SumSeq([k \in 1..Len(calculated) |-> calculated[k].amount])

TaxTotal(calculated) == SumSeq([k \in 1..Len(calculated) |-> calculated[k].tax_amount])

(* ---------------------------- Invoice Engine -------------------------- *)

Done(o, r) == op' = o /\ result' = r

Fail(o, r) ==
  /\ Done(o, r)
  /\ before' = NoRow
  /\ UNCHANGED <<expenses, sessions, customers, items, taxes, invoices, payments, quotes, now>>

\* `cap` bounds the invoices table.
create_invoice_within(cap, org, customer_id, invoice_date, due_date, lines) ==
  LET o == [name |-> "create_invoice"] IN
  IF ~FindCustomer(customer_id, org) THEN Fail(o, "NotFoundException")
  ELSE IF due_date < invoice_date THEN Fail(o, "ValidationException")
  ELSE IF \E k \in 1..Len(lines) : ~LineResolves(lines[k], org)
       THEN Fail(o, "NotFoundException")
  ELSE    LET calculated == CalculatedItems(lines)
              subtotal   == Subtotal(calculated)
              tax_total  == TaxTotal(calculated)
              total      == subtotal + tax_total
              invoice(invoice_number) ==
                [organization_id |-> org, customer_id |-> customer_id,
                 invoice_number |-> invoice_number, created_at |-> now,
                 status |-> "DRAFT", is_deleted |-> FALSE,
                 invoice_date |-> invoice_date, due_date |-> due_date,
                 subtotal |-> subtotal, tax_total |-> tax_total, total |-> total,
                 amount_paid |-> 0, balance_due |-> total,
                 currency_code |-> customers[customer_id].currency_code,
                 payment_terms_days |-> customers[customer_id].payment_terms_days,
                 notes |-> <<>>, items |-> calculated,
                 sent_at |-> 0, paid_at |-> 0, voided_at |-> 0, void_reason |-> ""]
          IN  /\ Len(invoices) < cap
              /\ \E invoice_number \in generate_invoice_number(org) :
                   invoices' = Append(invoices, invoice(invoice_number))
              /\ Done(o, "ok")
              /\ before' = NoRow
              /\ UNCHANGED <<expenses, sessions, customers, items, taxes, payments, quotes, now>>

create_invoice(org, customer_id, invoice_date, due_date, lines) ==
  create_invoice_within(MaxInvoices, org, customer_id, invoice_date, due_date, lines)

\* Mutant: only PAID and VOID invoices are refused, as the route's docstring has it.
SendInvoiceAllowed_NotPaidOrVoid(invoice) == invoice.status \notin {"PAID", "VOID"}

\* invoice_service.py:283
SendInvoiceAllowed(invoice) == invoice.status \in {"DRAFT", "SENT"}

\* Mutant: sent_at is written on every accepted send.
SendInvoiceUpdate_Rewrite(invoice) == [invoice EXCEPT !.status = "SENT", !.sent_at = now]

SendInvoiceUpdate(invoice) ==
  IF invoice.status = "DRAFT"
  THEN [invoice EXCEPT !.status = "SENT", !.sent_at = now]
  ELSE invoice

send_invoice(org, invoice_id) ==
  LET o == [name |-> "send_invoice"] IN
  IF ~get_invoice_by_id(invoice_id, org) THEN Fail(o, "NotFoundException")
  ELSE IF ~SendInvoiceAllowed(invoices[invoice_id])
       THEN Fail(o, "ValidationException")
  ELSE /\ invoices' = [invoices EXCEPT ![invoice_id] = SendInvoiceUpdate(@)]
       /\ Done(o, "ok")
       /\ before' = NoRow
       /\ UNCHANGED <<expenses, sessions, customers, items, taxes, payments, quotes, now>>

\* Mutant: only an already void invoice is refused.
VoidInvoiceBlocked_OnlyVoid(invoice) == invoice.status = "VOID"

VoidInvoiceBlocked(invoice) == invoice.status = "VOID" \/ invoice.status = "PAID"

void_invoice(org, invoice_id, reason) ==
  LET o == [name |-> "void_invoice"] IN
  IF ~get_invoice_by_id(invoice_id, org) THEN Fail(o, "NotFoundException")
  ELSE IF VoidInvoiceBlocked(invoices[invoice_id])
       THEN Fail(o, "ValidationException")
  ELSE /\ invoices' = [invoices EXCEPT ![invoice_id] =
                         [@ EXCEPT !.status = "VOID", !.voided_at = now,
                                   !.void_reason = reason]]
       /\ Done(o, "ok")
       /\ before' = NoRow
       /\ UNCHANGED <<expenses, sessions, customers, items, taxes, payments, quotes, now>>

(* --------------------- Payment Reconciliation Engine ------------------ *)

\* Mutant: amount_paid is raised but balance_due is not recomputed.
RecordInvoiceUpdate_StaleBalance(invoice, amount) ==
  LET amount_paid == invoice.amount_paid + amount
      paid        == [invoice EXCEPT !.amount_paid = amount_paid]
  IN  IF invoice.total - amount_paid = 0
      THEN [paid EXCEPT !.status = "PAID", !.paid_at = now]
      ELSE [paid EXCEPT !.status = "PARTIALLY_PAID"]

\* Mutant: every payment marks the invoice PAID.
RecordInvoiceUpdate_AlwaysPaid(invoice, amount) ==
  LET amount_paid == invoice.amount_paid + amount
      balance_due == invoice.total - amount_paid
  IN  [invoice EXCEPT !.amount_paid = amount_paid, !.balance_due = balance_due,
                      !.status = "PAID", !.paid_at = now]

\* Mutant: the invoice becomes PAID but paid_at is not written.
RecordInvoiceUpdate_NoPaidAt(invoice, amount) ==
  LET amount_paid == invoice.amount_paid + amount
      balance_due == invoice.total - amount_paid
      paid        == [invoice EXCEPT !.amount_paid = amount_paid,
                                     !.balance_due = balance_due]
  IN  IF balance_due = 0
      THEN [paid EXCEPT !.status = "PAID"]
      ELSE IF amount_paid > 0
           THEN [paid EXCEPT !.status = "PARTIALLY_PAID"]
           ELSE paid

\* payment_service.py:185-194: the invoice after a payment of `amount`.
RecordInvoiceUpdate(invoice, amount) ==
  LET amount_paid == invoice.amount_paid + amount
      balance_due == invoice.total - amount_paid
      paid        == [invoice EXCEPT !.amount_paid = amount_paid,
                                     !.balance_due = balance_due]
  IN  IF balance_due = 0
      THEN [paid EXCEPT !.status = "PAID", !.paid_at = now]
      ELSE IF amount_paid > 0
           THEN [paid EXCEPT !.status = "PARTIALLY_PAID"]
           ELSE paid

\* payment_service.py:142-149: statuses that accept no payment.
RecordPaymentBlocked(invoice) == invoice.status = "VOID" \/ invoice.status = "DRAFT"

\* Mutant: the amount is compared with the invoice total.
AmountExceedsBalance_Total(invoice, amount) == amount > invoice.total

\* payment_service.py:152
AmountExceedsBalance(invoice, amount) == amount > invoice.balance_due

record_payment(org, invoice_id, amount, user) ==
  LET o == [name |-> "record_payment"] IN
  IF ~get_invoice_by_id(invoice_id, org) THEN Fail(o, "NotFoundException")
  ELSE IF RecordPaymentBlocked(invoices[invoice_id]) THEN Fail(o, "ValidationException")
  ELSE IF AmountExceedsBalance(invoices[invoice_id], amount)
       THEN Fail(o, "ValidationException")
  ELSE IF amount <= 0 THEN Fail(o, "ValidationException")
  ELSE    LET invoice == invoices[invoice_id]
              payment(payment_number) ==
                [organization_id |-> org, customer_id |-> invoice.customer_id,
                 invoice_id |-> invoice_id,
                 payment_number |-> payment_number, created_at |-> now,
                 amount |-> amount, payment_method |-> "CASH",
                 gateway_payment_id |-> "", created_by |-> user,
                 is_voided |-> FALSE, voided_at |-> 0, void_reason |-> "",
                 voided_by |-> 0]
          IN  /\ Len(payments) < MaxPayments
              /\ \E payment_number \in generate_payment_number(org) :
                   payments' = Append(payments, payment(payment_number))
              /\ invoices' = [invoices EXCEPT ![invoice_id] =
                                RecordInvoiceUpdate(invoice, amount)]
              /\ Done(o, "ok")
              /\ before' = invoice
              /\ UNCHANGED <<expenses, sessions, customers, items, taxes, quotes, now>>

\* select(Payment) by gateway_payment_id and organization.
ExistingGatewayPayments(org, gateway_payment_id) ==
  {p \in 1..Len(payments) : /\ payments[p].gateway_payment_id = gateway_payment_id
                            /\ payments[p].organization_id = org}

\* The payment row of a gateway payment: no user, method ONLINE.
GatewayPayment(org, invoice, invoice_id, amount, gateway_payment_id, payment_number) ==
  [organization_id |-> org, customer_id |-> invoice.customer_id,
   invoice_id |-> invoice_id,
   payment_number |-> payment_number, created_at |-> now,
   amount |-> amount, payment_method |-> "ONLINE",
   gateway_payment_id |-> gateway_payment_id, created_by |-> 0,
   is_voided |-> FALSE, voided_at |-> 0, void_reason |-> "",
   voided_by |-> 0]

\* Called by no route yet (payment_service.py:206-211); the webhook handler
\* is to call it.  `returned` is the payment handed back, 0 on failure.
record_gateway_payment(org, invoice_id, amount, gateway_payment_id) ==
  LET o(p) == [name |-> "record_gateway_payment", returned |-> p]
      existing == ExistingGatewayPayments(org, gateway_payment_id) IN
  IF ~get_invoice_by_id(invoice_id, org) THEN Fail(o(0), "NotFoundException")
  ELSE IF invoices[invoice_id].status = "VOID" THEN Fail(o(0), "ValidationException")
  ELSE IF Cardinality(existing) > 1 THEN Fail(o(0), "MultipleResultsFound")
  ELSE IF existing # {} THEN Fail(o(CHOOSE p \in existing : TRUE), "ok")
  ELSE    LET invoice == invoices[invoice_id]
          IN  /\ Len(payments) < MaxPayments
              /\ \E payment_number \in generate_payment_number(org) :
                   payments' = Append(payments,
                                      GatewayPayment(org, invoice, invoice_id, amount,
                                                     gateway_payment_id, payment_number))
              /\ invoices' = [invoices EXCEPT ![invoice_id] =
                                RecordInvoiceUpdate(invoice, amount)]
              /\ Done(o(Len(payments) + 1), "ok")
              /\ before' = NoRow
              /\ UNCHANGED <<expenses, sessions, customers, items, taxes, quotes, now>>

\* Mutant: the amounts are reversed but the status is not recalculated.
VoidInvoiceBalance_KeepStatus(invoice, amount) ==
  LET amount_paid == invoice.amount_paid - amount
  IN  [invoice EXCEPT !.amount_paid = amount_paid,
                      !.balance_due = invoice.total - amount_paid]

\* Mutant: paid_at survives when the invoice falls back to PARTIALLY_PAID.
VoidInvoiceBalance_KeepPaidAt(invoice, amount) ==
  LET amount_paid == invoice.amount_paid - amount
      balance_due == invoice.total - amount_paid
      reversed    == [invoice EXCEPT !.amount_paid = amount_paid,
                                     !.balance_due = balance_due]
  IN  IF balance_due = invoice.total
      THEN [reversed EXCEPT !.status = IF invoice.sent_at # 0 THEN "SENT" ELSE "DRAFT",
                            !.paid_at = 0]
      ELSE IF balance_due > 0
           THEN [reversed EXCEPT !.status = "PARTIALLY_PAID"]
           ELSE reversed

\* payment_service.py:315-329: the invoice after reversing a payment of `amount`.
VoidInvoiceBalance(invoice, amount) ==
  LET amount_paid == invoice.amount_paid - amount
      balance_due == invoice.total - amount_paid
      reversed    == [invoice EXCEPT !.amount_paid = amount_paid,
                                     !.balance_due = balance_due]
  IN  IF balance_due = invoice.total
      THEN [reversed EXCEPT !.status = IF invoice.sent_at # 0 THEN "SENT" ELSE "DRAFT",
                            !.paid_at = 0]
      ELSE IF balance_due > 0
           THEN [reversed EXCEPT !.status = "PARTIALLY_PAID", !.paid_at = 0]
           ELSE reversed

VoidPaymentUpdate(payment, reason, user) ==
  [payment EXCEPT !.is_voided = TRUE, !.voided_at = now,
                  !.void_reason = reason, !.voided_by = user]

\* Mutant: the already-voided check is missing.
PaymentAlreadyVoided_Never(payment) == FALSE

PaymentAlreadyVoided(payment) == payment.is_voided

\* `round_trip` notes whether the call voids the payment that the request
\* served immediately before it has recorded; `before` is then kept.
void_payment(org, payment_id, reason, user) ==
  LET round_trip == /\ op.name = "record_payment"
                    /\ result = "ok"
                    /\ payment_id = Len(payments)
      o == [name |-> "void_payment", round_trip |-> round_trip] IN
  IF ~get_payment_by_id(payment_id, org) THEN Fail(o, "NotFoundException")
  ELSE IF PaymentAlreadyVoided(payments[payment_id]) THEN Fail(o, "ValidationException")
  ELSE IF payments[payment_id].invoice_id \notin 1..Len(invoices)
       THEN Fail(o, "NotFoundException")
  ELSE LET payment == payments[payment_id] IN
       /\ payments' = [payments EXCEPT ![payment_id] =
                         VoidPaymentUpdate(payment, reason, user)]
       /\ invoices' = [invoices EXCEPT ![payment.invoice_id] =
                         VoidInvoiceBalance(@, payment.amount)]
       /\ Done(o, "ok")
       /\ before' = IF round_trip THEN before ELSE NoRow
       /\ UNCHANGED <<expenses, sessions, customers, items, taxes, quotes, now>>

(* ----------------------------- Quote Engine --------------------------- *)

\* date.today(): the calendar date of the clock.
today == now

create_quote(org, customer_id, quote_date, expiry_date, lines) ==
  LET o == [name |-> "create_quote"] IN
  IF ~FindCustomer(customer_id, org) THEN Fail(o, "NotFoundException")
  ELSE IF expiry_date < quote_date THEN Fail(o, "ValidationException")
  ELSE IF \E k \in 1..Len(lines) : ~LineResolves(lines[k], org)
       THEN Fail(o, "NotFoundException")
  ELSE    LET calculated == QuoteCalculatedItems(lines)
              subtotal   == Subtotal(calculated)
              tax_total  == TaxTotal(calculated)
              total      == subtotal + tax_total
              quote(quote_number) ==
                [organization_id |-> org, customer_id |-> customer_id,
                 quote_number |-> quote_number, created_at |-> now,
                 status |-> "DRAFT", is_deleted |-> FALSE,
                 quote_date |-> quote_date, expiry_date |-> expiry_date,
                 subtotal |-> subtotal, tax_total |-> tax_total, total |-> total,
                 currency_code |-> customers[customer_id].currency_code,
                 notes |-> <<>>, items |-> calculated,
                 sent_at |-> 0, accepted_at |-> 0, rejected_at |-> 0,
                 converted_at |-> 0, converted_invoice_id |-> 0]
          IN  /\ Len(quotes) < MaxQuotes
              /\ \E quote_number \in generate_quote_number(org) :
                   quotes' = Append(quotes, quote(quote_number))
              /\ Done(o, "ok")
              /\ before' = NoRow
              /\ UNCHANGED <<expenses, sessions, customers, items, taxes, invoices, payments, now>>

\* quote_service.py:278
SendQuoteAllowed(quote) == quote.status \in {"DRAFT", "SENT"}

SendQuoteUpdate(quote) ==
  IF quote.status = "DRAFT"
  THEN [quote EXCEPT !.status = "SENT", !.sent_at = now]
  ELSE quote

send_quote(org, quote_id) ==
  LET o == [name |-> "send_quote"] IN
  IF ~get_quote_by_id(quote_id, org) THEN Fail(o, "NotFoundException")
  ELSE IF ~SendQuoteAllowed(quotes[quote_id])
       THEN Fail(o, "ValidationException")
  ELSE /\ quotes' = [quotes EXCEPT ![quote_id] = SendQuoteUpdate(@)]
       /\ Done(o, "ok")
       /\ before' = NoRow
       /\ UNCHANGED <<expenses, sessions, customers, items, taxes, invoices, payments, now>>

\* Mutant: a DRAFT quote can be accepted too.
AcceptSources_WithDraft == {"DRAFT", "SENT", "VIEWED"}

AcceptSources == {"SENT", "VIEWED"}

\* Mutant: a quote expires at the start of its expiry date.
QuoteExpired_OnExpiryDate(quote) == quote.expiry_date <= today

\* quote_service.py:300
QuoteExpired(quote) == quote.expiry_date < today

accept_quote(org, quote_id, with_notes) ==
  LET o == [name |-> "accept_quote"] IN
  IF ~get_quote_by_id(quote_id, org) THEN Fail(o, "NotFoundException")
  ELSE IF quotes[quote_id].status \notin AcceptSources
       THEN Fail(o, "ValidationException")
  ELSE IF QuoteExpired(quotes[quote_id]) THEN Fail(o, "ValidationException")
  ELSE /\ quotes' = [quotes EXCEPT ![quote_id] =
                       [@ EXCEPT !.status = "ACCEPTED", !.accepted_at = now,
                                 !.notes = IF with_notes
                                           THEN Append(@, "Acceptance Notes")
                                           ELSE @]]
       /\ Done(o, "ok")
       /\ before' = NoRow
       /\ UNCHANGED <<expenses, sessions, customers, items, taxes, invoices, payments, now>>

RejectSources == {"SENT", "VIEWED"}

reject_quote(org, quote_id, reason) ==
  LET o == [name |-> "reject_quote"] IN
  IF ~get_quote_by_id(quote_id, org) THEN Fail(o, "NotFoundException")
  ELSE IF quotes[quote_id].status \notin RejectSources
       THEN Fail(o, "ValidationException")
  ELSE /\ quotes' = [quotes EXCEPT ![quote_id] =
                       [@ EXCEPT !.status = "REJECTED", !.rejected_at = now,
                                 !.notes = Append(@, "Rejection Reason")]]
       /\ Done(o, "ok")
       /\ before' = NoRow
       /\ UNCHANGED <<expenses, sessions, customers, items, taxes, invoices, payments, now>>

ConvertAllowed(quote) == quote.status = "ACCEPTED"

\* Mutant: the copy carries quantity, rate and amount but not the tax fields.
ConvertedItems_AmountsOnly(quote) ==
  [k \in 1..Len(quote.items) |->
     [quote.items[k] EXCEPT !.tax_rate = 0, !.tax_amount = 0,
                             !.total = quote.items[k].amount]]

\* quote_service.py:387-406: every quote item copied field by field.
ConvertedItems(quote) ==
  [k \in 1..Len(quote.items) |->
     LET q_item == quote.items[k]
     IN  [item_id |-> q_item.item_id, quantity |-> q_item.quantity,
          rate |-> q_item.rate, amount |-> q_item.amount,
          tax_id |-> q_item.tax_id, tax_rate |-> q_item.tax_rate,
          tax_amount |-> q_item.tax_amount, total |-> q_item.total,
          sort_order |-> q_item.sort_order]]

\* Mutant: the update of the quote is not written.
ConvertQuoteUpdate_Lost(quote, invoice_id) == quote

\* quote_service.py:408-411
ConvertQuoteUpdate(quote, invoice_id) ==
  [quote EXCEPT !.status = "CONVERTED", !.converted_at = now,
                !.converted_invoice_id = invoice_id]

\* The invoices table is capped at the invoices created plus one per quote.
convert_to_invoice(org, quote_id, user) ==
  LET o == [name |-> "convert_to_invoice"] IN
  IF ~get_quote_by_id(quote_id, org) THEN Fail(o, "NotFoundException")
  ELSE IF ~ConvertAllowed(quotes[quote_id]) THEN Fail(o, "ValidationException")
  ELSE IF quotes[quote_id].converted_invoice_id # 0 THEN Fail(o, "ValidationException")
  ELSE LET quote   == quotes[quote_id]
           invoice(invoice_number) ==
             [organization_id |-> quote.organization_id,
              customer_id |-> quote.customer_id,
              invoice_number |-> invoice_number, created_at |-> now,
              status |-> "DRAFT", is_deleted |-> FALSE,
              invoice_date |-> today, due_date |-> today,
              subtotal |-> quote.subtotal, tax_total |-> quote.tax_total,
              total |-> quote.total,
              amount_paid |-> 0, balance_due |-> quote.total,
              currency_code |-> quote.currency_code,
              payment_terms_days |-> customers[quote.customer_id].payment_terms_days,
              notes |-> quote.notes, items |-> ConvertedItems(quote),
              sent_at |-> 0, paid_at |-> 0, voided_at |-> 0, void_reason |-> ""]
       IN  /\ Len(invoices) < MaxInvoices + MaxQuotes
           /\ \E invoice_number \in generate_invoice_number(quote.organization_id) :
                invoices' = Append(invoices, invoice(invoice_number))
           /\ quotes' = [quotes EXCEPT ![quote_id] =
                           ConvertQuoteUpdate(@, Len(invoices) + 1)]
           /\ Done(o, "ok")
           /\ before' = NoRow
           /\ UNCHANGED <<expenses, sessions, customers, items, taxes, payments, now>>

(* ------------------------ customers and catalog ----------------------- *)

\* str.lower() on the addresses of Emails.
Lower(email) == IF email = "A@x.io" THEN "a@x.io" ELSE email

\* Mutant: the duplicate lookup uses the address as it was given.
LookupEmail_AsGiven(email) == email

\* customer_service.py:123 and 166: the address the duplicate lookup uses.
LookupEmail(email) == Lower(email)

\* select(Customer) by organization, email and is_deleted == False, leaving
\* out the row `except` (Customer.id != customer.id; 0 leaves out none).
CustomersWithEmail(org, email, except) ==
  {c \in 1..Len(customers) : /\ customers[c].organization_id = org
                             /\ customers[c].email = email
                             /\ c # except
                             /\ customers[c].is_deleted = FALSE}

\* `cap` bounds the customers table.
create_customer(cap, org, email, is_active) ==
  LET o == [name |-> "create_customer"]
      existing == CustomersWithEmail(org, LookupEmail(email), 0) IN
  IF email # "" /\ Cardinality(existing) > 1 THEN Fail(o, "MultipleResultsFound")
  ELSE IF email # "" /\ existing # {} THEN Fail(o, "DuplicateException")
  ELSE /\ Len(customers) < cap
       /\ customers' = Append(customers,
                              [organization_id |-> org, is_deleted |-> FALSE,
                               is_active |-> is_active, currency_code |-> "INR",
                               payment_terms_days |-> 30, email |-> Lower(email)])
       /\ Done(o, "ok")
       /\ before' = NoRow
       /\ UNCHANGED <<expenses, sessions, items, taxes, invoices, payments, quotes, now>>

\* PATCH /customers/{id}: `data.fields` names the fields the body carries.
update_customer(org, customer_id, data) ==
  LET o == [name |-> "update_customer"]
      existing == CustomersWithEmail(org, LookupEmail(data.email), customer_id) IN
  IF ~FindCustomer(customer_id, org) THEN Fail(o, "NotFoundException")
  ELSE IF "email" \in data.fields /\ data.email # "" /\ Cardinality(existing) > 1
       THEN Fail(o, "MultipleResultsFound")
  ELSE IF "email" \in data.fields /\ data.email # "" /\ existing # {}
       THEN Fail(o, "DuplicateException")
  ELSE /\ customers' = [customers EXCEPT ![customer_id] =
                          [@ EXCEPT !.email = IF "email" \in data.fields
                                              THEN Lower(data.email) ELSE @,
                                    !.is_active = IF "is_active" \in data.fields
                                                  THEN data.is_active ELSE @]]
       /\ Done(o, "ok")
       /\ before' = NoRow
       /\ UNCHANGED <<expenses, sessions, items, taxes, invoices, payments, quotes, now>>

delete_customer(org, customer_id) ==
  LET o == [name |-> "delete_customer"] IN
  IF ~FindCustomer(customer_id, org) THEN Fail(o, "NotFoundException")
  ELSE /\ customers' = [customers EXCEPT ![customer_id] =
                          [@ EXCEPT !.is_deleted = TRUE, !.is_active = FALSE]]
       /\ Done(o, "ok")
       /\ before' = NoRow
       /\ UNCHANGED <<expenses, sessions, items, taxes, invoices, payments, quotes, now>>

\* PATCH /items/{id} with is_active in the body.
update_item(org, item_id, is_active) ==
  LET o == [name |-> "update_item"] IN
  IF ~FindItem(item_id, org) THEN Fail(o, "NotFoundException")
  ELSE /\ items' = [items EXCEPT ![item_id] = [@ EXCEPT !.is_active = is_active]]
       /\ Done(o, "ok")
       /\ before' = NoRow
       /\ UNCHANGED <<expenses, sessions, customers, taxes, invoices, payments, quotes, now>>

delete_item(org, item_id) ==
  LET o == [name |-> "delete_item"] IN
  IF ~FindItem(item_id, org) THEN Fail(o, "NotFoundException")
  ELSE /\ items' = [items EXCEPT ![item_id] =
                      [@ EXCEPT !.is_deleted = TRUE, !.is_active = FALSE]]
       /\ Done(o, "ok")
       /\ before' = NoRow
       /\ UNCHANGED <<expenses, sessions, customers, taxes, invoices, payments, quotes, now>>

\* PATCH /taxes/{id} with is_active in the body.
update_tax(org, tax_id, is_active) ==
  LET o == [name |-> "update_tax"] IN
  IF ~FindTax(tax_id, org) THEN Fail(o, "NotFoundException")
  ELSE /\ taxes' = [taxes EXCEPT ![tax_id] = [@ EXCEPT !.is_active = is_active]]
       /\ Done(o, "ok")
       /\ before' = NoRow
       /\ UNCHANGED <<expenses, sessions, customers, items, invoices, payments, quotes, now>>

delete_tax(org, tax_id) ==
  LET o == [name |-> "delete_tax"] IN
  IF ~FindTax(tax_id, org) THEN Fail(o, "NotFoundException")
  ELSE /\ taxes' = [taxes EXCEPT ![tax_id] =
                      [@ EXCEPT !.is_deleted = TRUE, !.is_active = FALSE]]
       /\ Done(o, "ok")
       /\ before' = NoRow
       /\ UNCHANGED <<expenses, sessions, customers, items, invoices, payments, quotes, now>>

(* ------------------------------ expenses ------------------------------ *)

get_expense_by_id(id, org) ==
  /\ id \in 1..Len(expenses)
  /\ expenses[id].organization_id = org
  /\ expenses[id].is_deleted = FALSE

generate_expense_number(org) ==
  {FormatNumber("EXP", num) : num \in NextNumber(expenses, org, "expense_number")}

\* customer_id 0 stands for "not given"; amounts in hundredths.
create_expense(org, data, user) ==
  LET o == [name |-> "create_expense"]
      expense(expense_number) ==
        [organization_id |-> org, expense_number |-> expense_number,
         created_at |-> now, is_deleted |-> FALSE,
         amount |-> data.amount, tax_amount |-> data.tax_amount,
         total |-> data.amount + data.tax_amount,
         is_billable |-> data.is_billable, customer_id |-> data.customer_id,
         created_by |-> user] IN
  IF data.is_billable /\ data.customer_id # 0 /\ ~FindCustomer(data.customer_id, org)
  THEN Fail(o, "NotFoundException")
  ELSE IF data.is_billable /\ data.customer_id = 0 THEN Fail(o, "ValidationException")
  ELSE /\ Len(expenses) < MaxExpenses
       /\ \E expense_number \in generate_expense_number(org) :
            expenses' = Append(expenses, expense(expense_number))
       /\ Done(o, "ok")
       /\ before' = NoRow
       /\ UNCHANGED <<sessions, customers, items, taxes, invoices, payments, quotes, now>>

\* PATCH /expenses/{id}: `data.fields` names the fields the body carries; a
\* field the body does not carry reads as None in expense_data.
update_expense(org, expense_id, data) ==
  LET o == [name |-> "update_expense"]
      is_billable == "is_billable" \in data.fields /\ data.is_billable
      customer_id == IF "customer_id" \in data.fields THEN data.customer_id ELSE 0 IN
  IF ~get_expense_by_id(expense_id, org) THEN Fail(o, "NotFoundException")
  ELSE IF is_billable /\ customer_id # 0 /\ ~FindCustomer(customer_id, org)
       THEN Fail(o, "NotFoundException")
  ELSE /\ expenses' = [expenses EXCEPT ![expense_id] =
                         [@ EXCEPT !.is_billable = IF "is_billable" \in data.fields
                                                   THEN data.is_billable ELSE @,
                                   !.customer_id = IF "customer_id" \in data.fields
                                                   THEN data.customer_id ELSE @]]
       /\ Done(o, "ok")
       /\ before' = NoRow
       /\ UNCHANGED <<sessions, customers, items, taxes, invoices, payments, quotes, now>>

delete_expense(org, expense_id) ==
  LET o == [name |-> "delete_expense"] IN
  IF ~get_expense_by_id(expense_id, org) THEN Fail(o, "NotFoundException")
  ELSE /\ expenses' = [expenses EXCEPT ![expense_id] = [@ EXCEPT !.is_deleted = TRUE]]
       /\ Done(o, "ok")
       /\ before' = NoRow
       /\ UNCHANGED <<sessions, customers, items, taxes, invoices, payments, quotes, now>>

(* ------------------------------- clock -------------------------------- *)

\* Time passes between requests: datetime.utcnow() / date.today() advance.
Tick ==
  /\ now + 1 \in Times
  /\ now' = now + 1
  /\ op' = [name |-> "tick"]
  /\ result' = "ok"
  /\ before' = NoRow
  /\ UNCHANGED <<expenses, sessions, customers, items, taxes, invoices, payments, quotes>>

(* --------------------------- specification ---------------------------- *)

Init ==
  /\ customers = CustomerFixture
  /\ items = ItemFixture
  /\ taxes = TaxFixture
  /\ invoices = <<>>
  /\ payments = <<>>
  /\ quotes = <<>>
  /\ now = 1
  /\ op = NoOp
  /\ result = "ok"
  /\ before = NoRow
  /\ sessions = [s \in Sessions |-> Idle]
  /\ expenses = <<>>

CreateInvoice ==
  \E org \in Orgs, c \in CustomerIds, d \in InvoiceDatePairs :
    \E lines \in LineLists : create_invoice(org, c, d[1], d[2], lines)

SendInvoice == \E org \in Orgs, i \in InvoiceIds : send_invoice(org, i)

VoidInvoice == \E org \in Orgs, i \in InvoiceIds, r \in Reasons : void_invoice(org, i, r)

RecordPayment ==
  \E org \in Orgs, i \in InvoiceIds, a \in Amounts, u \in Users : record_payment(org, i, a, u)

VoidPayment ==
  \E org \in Orgs, p \in PaymentIds, r \in Reasons, u \in Users : void_payment(org, p, r, u)

CreateQuote ==
  \E org \in Orgs, c \in CustomerIds, d \in QuoteDatePairs :
    \E lines \in LineLists : create_quote(org, c, d[1], d[2], lines)

SendQuote == \E org \in Orgs, q \in QuoteIds : send_quote(org, q)

AcceptQuote == \E org \in Orgs, q \in QuoteIds, n \in BOOLEAN : accept_quote(org, q, n)

RejectQuote == \E org \in Orgs, q \in QuoteIds, r \in Reasons : reject_quote(org, q, r)

ConvertToInvoice == \E org \in Orgs, q \in QuoteIds, u \in Users : convert_to_invoice(org, q, u)

\* Invoice and payment engines, requests served one after another.
Next ==
  \/ CreateInvoice
  \/ SendInvoice
  \/ VoidInvoice
  \/ RecordPayment
  \/ VoidPayment

Spec == Init /\ [][Next]_vars

\* Quote engine, through conversion and the sending of the resulting invoice.
NextQuote ==
  \/ CreateQuote
  \/ SendQuote
  \/ AcceptQuote
  \/ RejectQuote
  \/ ConvertToInvoice
  \/ SendInvoice
  \/ Tick

SpecQuote == Init /\ [][NextQuote]_vars

(* ----------------------- line item calculation ------------------------ *)

\* One call of each _calculate_line_item on the same arguments.
CalculateLineItem ==
  /\ op.name = "line_item"
  /\ op' = [name |-> "_calculate_line_item",
            quantity |-> op.quantity, rate |-> op.rate, tax_rate |-> op.tax_rate,
            invoice_item |-> calculate_line_item(op.quantity, op.rate, op.tax_rate),
            quote_item |-> quote_calculate_line_item(op.quantity, op.rate, op.tax_rate)]
  /\ UNCHANGED <<expenses, sessions, customers, items, taxes, invoices, payments, quotes, now,
                 result, before>>

InitLineItem ==
  /\ customers = CustomerFixture
  /\ items = ItemFixture
  /\ taxes = TaxFixture
  /\ invoices = <<>>
  /\ payments = <<>>
  /\ quotes = <<>>
  /\ now = 1
  /\ op \in {[name |-> "line_item", quantity |-> q, rate |-> r, tax_rate |-> t] :
              q \in LineQuantities, r \in LineRates, t \in LineTaxRates}
  /\ result = "ok"
  /\ before = NoRow
  /\ sessions = [s \in Sessions |-> Idle]
  /\ expenses = <<>>

SpecLineItem == InitLineItem /\ [][CalculateLineItem]_vars

(* --------------------------- document totals -------------------------- *)

\* 2.000 x 100.00 under tax 1 and 1.000 x 50.00 untaxed, besides the lines
\* of LineChoices.
TotalsLineChoices ==
  LineChoices \cup
    { [item_id |-> 0, quantity |-> 2000, rate |-> 10000, tax_id |-> 1],
      [item_id |-> 0, quantity |-> 1000, rate |-> 5000, tax_id |-> 0] }

RECURSIVE ListsUpTo(_, _)
ListsUpTo(S, n) ==
  IF n = 0 THEN {<<>>}
  ELSE LET shorter == ListsUpTo(S, n - 1)
       IN  shorter \cup {Append(l, x) : l \in shorter, x \in S}

\* items: List[...] = Field(..., min_length=1)
TotalsLineLists == ListsUpTo(TotalsLineChoices, MaxLines) \ {<<>>}

\* One document is created in a database that holds none.
CreateInvoiceTotals ==
  /\ invoices = <<>> /\ quotes = <<>>
  /\ \E org \in Orgs, c \in CustomerIds, d \in InvoiceDatePairs :
       \E lines \in TotalsLineLists : create_invoice(org, c, d[1], d[2], lines)

CreateQuoteTotals ==
  /\ invoices = <<>> /\ quotes = <<>>
  /\ \E org \in Orgs, c \in CustomerIds, d \in QuoteDatePairs :
       \E lines \in TotalsLineLists : create_quote(org, c, d[1], d[2], lines)

NextTotals ==
  \/ CreateInvoiceTotals
  \/ CreateQuoteTotals

SpecTotals == Init /\ [][NextTotals]_vars

(* ------------------------- document numbering ------------------------- *)

CreateInvoiceNumbered ==
  \E org \in Orgs, c \in CustomerIds, d \in InvoiceDatePairs :
    \E lines \in LineLists : create_invoice_within(MaxNumbered, org, c, d[1], d[2], lines)

\* Invoices created one after another, each request completing before the
\* next starts, within one clock unit or across them.
NextNumbering ==
  \/ CreateInvoiceNumbered
  \/ Tick

SpecNumbering == Init /\ [][NextNumbering]_vars

(* --------------------------- gateway payments ------------------------- *)

RecordGatewayPayment ==
  \E org \in Orgs, i \in InvoiceIds, a \in Amounts, g \in GatewayPaymentIds :
    record_gateway_payment(org, i, a, g)

\* The invoice and payment engines with the gateway webhook's recording.
NextGateway ==
  \/ Next
  \/ RecordGatewayPayment

SpecGateway == Init /\ [][NextGateway]_vars

(* ------------------------ overlapping requests ------------------------ *)

\* A request served on its own session runs in two steps, as its SELECTs
\* and its commit are separate round trips to the database: the first step
\* runs the handler up to the last value it reads, the second writes and
\* commits what the handler built from the values read.  A session sees
\* only committed rows.

\* create_invoice up to and including _generate_invoice_number.
create_invoice_read(s, org, customer_id, invoice_date, due_date, lines) ==
  LET o == [name |-> "create_invoice"] IN
  /\ sessions[s] = Idle
  /\ IF ~FindCustomer(customer_id, org) THEN Fail(o, "NotFoundException")
     ELSE IF due_date < invoice_date THEN Fail(o, "ValidationException")
     ELSE IF \E k \in 1..Len(lines) : ~LineResolves(lines[k], org)
          THEN Fail(o, "NotFoundException")
     ELSE LET calculated == CalculatedItems(lines)
              subtotal   == Subtotal(calculated)
              tax_total  == TaxTotal(calculated)
              total      == subtotal + tax_total
              invoice(invoice_number) ==
                [organization_id |-> org, customer_id |-> customer_id,
                 invoice_number |-> invoice_number, created_at |-> 0,
                 status |-> "DRAFT", is_deleted |-> FALSE,
                 invoice_date |-> invoice_date, due_date |-> due_date,
                 subtotal |-> subtotal, tax_total |-> tax_total, total |-> total,
                 amount_paid |-> 0, balance_due |-> total,
                 currency_code |-> customers[customer_id].currency_code,
                 payment_terms_days |-> customers[customer_id].payment_terms_days,
                 notes |-> <<>>, items |-> calculated,
                 sent_at |-> 0, paid_at |-> 0, voided_at |-> 0, void_reason |-> ""]
          IN  /\ \E invoice_number \in generate_invoice_number(org) :
                   sessions' = [sessions EXCEPT ![s] =
                                  [pc |-> "create_invoice", invoice |-> invoice(invoice_number)]]
              /\ Done([name |-> "create_invoice_read"], "ok")
              /\ before' = NoRow
              /\ UNCHANGED <<expenses, customers, items, taxes, invoices, payments, quotes, now>>

\* db.add(invoice), flush, the items, commit: created_at is the server's now().
create_invoice_commit(s) ==
  /\ sessions[s].pc = "create_invoice"
  /\ Len(invoices) < MaxNumbered
  /\ invoices' = Append(invoices, [sessions[s].invoice EXCEPT !.created_at = now])
  /\ sessions' = [sessions EXCEPT ![s] = Idle]
  /\ Done([name |-> "create_invoice"], "ok")
  /\ before' = NoRow
  /\ UNCHANGED <<expenses, customers, items, taxes, payments, quotes, now>>

CreateInvoiceRead ==
  \E s \in Sessions, org \in Orgs, c \in CustomerIds, d \in InvoiceDatePairs :
    \E lines \in LineLists : create_invoice_read(s, org, c, d[1], d[2], lines)

CreateInvoiceCommit == \E s \in Sessions : create_invoice_commit(s)

NextOverlapCreate ==
  \/ CreateInvoiceRead
  \/ CreateInvoiceCommit

SpecOverlapCreate == Init /\ [][NextOverlapCreate]_vars

\* record_gateway_payment up to and including _generate_payment_number: the
\* session keeps the invoice as it has read it.
record_gateway_payment_read(s, org, invoice_id, amount, gateway_payment_id) ==
  LET o(p) == [name |-> "record_gateway_payment", returned |-> p]
      existing == ExistingGatewayPayments(org, gateway_payment_id) IN
  /\ sessions[s] = Idle
  /\ IF ~get_invoice_by_id(invoice_id, org) THEN Fail(o(0), "NotFoundException")
     ELSE IF invoices[invoice_id].status = "VOID" THEN Fail(o(0), "ValidationException")
     ELSE IF Cardinality(existing) > 1 THEN Fail(o(0), "MultipleResultsFound")
     ELSE IF existing # {} THEN Fail(o(CHOOSE p \in existing : TRUE), "ok")
     ELSE /\ \E payment_number \in generate_payment_number(org) :
               sessions' = [sessions EXCEPT ![s] =
                 [pc |-> "record_gateway_payment", invoice_id |-> invoice_id,
                  invoice |-> invoices[invoice_id], amount |-> amount,
                  payment |-> GatewayPayment(org, invoices[invoice_id], invoice_id, amount,
                                             gateway_payment_id, payment_number)]]
          /\ Done([name |-> "record_gateway_payment_read"], "ok")
          /\ before' = NoRow
          /\ UNCHANGED <<expenses, customers, items, taxes, invoices, payments, quotes, now>>

\* The INSERT of the payment and the UPDATE of the invoice columns the
\* handler assigned, computed from the invoice as read, then the commit.
record_gateway_payment_commit(s) ==
  LET updated == RecordInvoiceUpdate(sessions[s].invoice, sessions[s].amount) IN
  /\ sessions[s].pc = "record_gateway_payment"
  /\ Len(payments) < MaxPayments
  /\ payments' = Append(payments, [sessions[s].payment EXCEPT !.created_at = now])
  /\ invoices' = [invoices EXCEPT ![sessions[s].invoice_id] =
                    [@ EXCEPT !.amount_paid = updated.amount_paid,
                              !.balance_due = updated.balance_due,
                              !.status = updated.status,
                              !.paid_at = updated.paid_at]]
  /\ sessions' = [sessions EXCEPT ![s] = Idle]
  /\ Done([name |-> "record_gateway_payment", returned |-> Len(payments) + 1], "ok")
  /\ before' = NoRow
  /\ UNCHANGED <<expenses, customers, items, taxes, quotes, now>>

RecordGatewayPaymentRead ==
  \E s \in Sessions, org \in Orgs, i \in InvoiceIds, a \in Amounts, g \in GatewayPaymentIds :
    record_gateway_payment_read(s, org, i, a, g)

RecordGatewayPaymentCommit == \E s \in Sessions : record_gateway_payment_commit(s)

NextOverlapGateway ==
  \/ CreateInvoice
  \/ RecordGatewayPaymentRead
  \/ RecordGatewayPaymentCommit

SpecOverlapGateway == Init /\ [][NextOverlapGateway]_vars

\* convert_to_invoice up to and including _generate_invoice_number, on the
\* quote as get_quote_by_id has read it.
convert_to_invoice_read(s, org, quote_id, user) ==
  LET o == [name |-> "convert_to_invoice"] IN
  /\ sessions[s] = Idle
  /\ IF ~get_quote_by_id(quote_id, org) THEN Fail(o, "NotFoundException")
     ELSE IF ~ConvertAllowed(quotes[quote_id]) THEN Fail(o, "ValidationException")
     ELSE IF quotes[quote_id].converted_invoice_id # 0 THEN Fail(o, "ValidationException")
     ELSE LET quote == quotes[quote_id]
              invoice(invoice_number) ==
                [organization_id |-> quote.organization_id,
                 customer_id |-> quote.customer_id,
                 invoice_number |-> invoice_number, created_at |-> 0,
                 status |-> "DRAFT", is_deleted |-> FALSE,
                 invoice_date |-> today, due_date |-> today,
                 subtotal |-> quote.subtotal, tax_total |-> quote.tax_total,
                 total |-> quote.total,
                 amount_paid |-> 0, balance_due |-> quote.total,
                 currency_code |-> quote.currency_code,
                 payment_terms_days |-> customers[quote.customer_id].payment_terms_days,
                 notes |-> quote.notes, items |-> ConvertedItems(quote),
                 sent_at |-> 0, paid_at |-> 0, voided_at |-> 0, void_reason |-> ""]
          IN  /\ \E invoice_number \in generate_invoice_number(quote.organization_id) :
                   sessions' = [sessions EXCEPT ![s] =
                                  [pc |-> "convert_to_invoice", quote_id |-> quote_id,
                                   invoice |-> invoice(invoice_number)]]
              /\ Done([name |-> "convert_to_invoice_read"], "ok")
              /\ before' = NoRow
              /\ UNCHANGED <<expenses, customers, items, taxes, invoices, payments, quotes, now>>

\* The INSERT of the invoice and its items, the UPDATE of the quote columns
\* the handler assigned, and the commit.
convert_to_invoice_commit(s) ==
  /\ sessions[s].pc = "convert_to_invoice"
  /\ Len(invoices) < MaxInvoices + MaxQuotes
  /\ invoices' = Append(invoices, [sessions[s].invoice EXCEPT !.created_at = now])
  /\ quotes' = [quotes EXCEPT ![sessions[s].quote_id] =
                  ConvertQuoteUpdate(@, Len(invoices) + 1)]
  /\ sessions' = [sessions EXCEPT ![s] = Idle]
  /\ Done([name |-> "convert_to_invoice"], "ok")
  /\ before' = NoRow
  /\ UNCHANGED <<expenses, customers, items, taxes, payments, now>>

\* Quotes created, sent and accepted one request at a time, and converted by
\* requests that may overlap.
NextOverlapConvert ==
  \/ CreateQuote
  \/ SendQuote
  \/ AcceptQuote
  \/ \E s \in Sessions, org \in Orgs, q \in QuoteIds, u \in Users :
       convert_to_invoice_read(s, org, q, u)
  \/ \E s \in Sessions : convert_to_invoice_commit(s)

SpecOverlapConvert == Init /\ [][NextOverlapConvert]_vars

\* record_payment up to and including _generate_payment_number: the session
\* keeps the invoice as it has read it.
record_payment_read(s, org, invoice_id, amount, user) ==
  LET o == [name |-> "record_payment"] IN
  /\ sessions[s] = Idle
  /\ IF ~get_invoice_by_id(invoice_id, org) THEN Fail(o, "NotFoundException")
     ELSE IF RecordPaymentBlocked(invoices[invoice_id]) THEN Fail(o, "ValidationException")
     ELSE IF AmountExceedsBalance(invoices[invoice_id], amount)
          THEN Fail(o, "ValidationException")
     ELSE IF amount <= 0 THEN Fail(o, "ValidationException")
     ELSE LET invoice == invoices[invoice_id]
              payment(payment_number) ==
                [organization_id |-> org, customer_id |-> invoice.customer_id,
                 invoice_id |-> invoice_id,
                 payment_number |-> payment_number, created_at |-> now,
                 amount |-> amount, payment_method |-> "CASH",
                 gateway_payment_id |-> "", created_by |-> user,
                 is_voided |-> FALSE, voided_at |-> 0, void_reason |-> "",
                 voided_by |-> 0]
          IN  /\ \E payment_number \in generate_payment_number(org) :
                   sessions' = [sessions EXCEPT ![s] =
                     [pc |-> "record_payment", invoice_id |-> invoice_id,
                      invoice |-> invoice, amount |-> amount,
                      payment |-> payment(payment_number)]]
              /\ Done([name |-> "record_payment_read"], "ok")
              /\ before' = NoRow
              /\ UNCHANGED <<expenses, customers, items, taxes, invoices, payments, quotes, now>>

\* The INSERT of the payment and the UPDATE of the invoice columns the
\* handler assigned, computed from the invoice as read, then the commit.
record_payment_commit(s) ==
  LET updated == RecordInvoiceUpdate(sessions[s].invoice, sessions[s].amount) IN
  /\ sessions[s].pc = "record_payment"
  /\ Len(payments) < MaxPayments
  /\ payments' = Append(payments, [sessions[s].payment EXCEPT !.created_at = now])
  /\ invoices' = [invoices EXCEPT ![sessions[s].invoice_id] =
                    [@ EXCEPT !.amount_paid = updated.amount_paid,
                              !.balance_due = updated.balance_due,
                              !.status = updated.status,
                              !.paid_at = updated.paid_at]]
  /\ sessions' = [sessions EXCEPT ![s] = Idle]
  /\ Done([name |-> "record_payment"], "ok")
  /\ before' = NoRow
  /\ UNCHANGED <<expenses, customers, items, taxes, quotes, now>>

\* Invoices created and sent one request at a time, and paid by requests
\* that may overlap.
NextOverlapPayment ==
  \/ CreateInvoice
  \/ SendInvoice
  \/ \E s \in Sessions, org \in Orgs, i \in InvoiceIds, a \in Amounts, u \in Users :
       record_payment_read(s, org, i, a, u)
  \/ \E s \in Sessions : record_payment_commit(s)

SpecOverlapPayment == Init /\ [][NextOverlapPayment]_vars

(* ------------------------ failure before commit ---------------------- *)

\* record_payment through the end of its begin_nested block: the payment row
\* and the invoice update are written on the session, not yet committed.
record_payment_flush(s, org, invoice_id, amount, user) ==
  LET o == [name |-> "record_payment"] IN
  /\ \A t \in Sessions : sessions[t] = Idle
  /\ IF ~get_invoice_by_id(invoice_id, org) THEN Fail(o, "NotFoundException")
     ELSE IF RecordPaymentBlocked(invoices[invoice_id]) THEN Fail(o, "ValidationException")
     ELSE IF AmountExceedsBalance(invoices[invoice_id], amount)
          THEN Fail(o, "ValidationException")
     ELSE IF amount <= 0 THEN Fail(o, "ValidationException")
     ELSE LET invoice == invoices[invoice_id]
              payment(payment_number) ==
                [organization_id |-> org, customer_id |-> invoice.customer_id,
                 invoice_id |-> invoice_id,
                 payment_number |-> payment_number, created_at |-> now,
                 amount |-> amount, payment_method |-> "CASH",
                 gateway_payment_id |-> "", created_by |-> user,
                 is_voided |-> FALSE, voided_at |-> 0, void_reason |-> "",
                 voided_by |-> 0]
          IN  /\ Len(payments) < MaxPayments
              /\ \E payment_number \in generate_payment_number(org) :
                   sessions' = [sessions EXCEPT ![s] =
                     [pc |-> "record_payment",
                      payment_id |-> Len(payments) + 1,
                      payment |-> payment(payment_number),
                      invoice_id |-> invoice_id,
                      invoice |-> RecordInvoiceUpdate(invoice, amount)]]
              /\ Done([name |-> "record_payment_flush"], "ok")
              /\ before' = NoRow
              /\ UNCHANGED <<expenses, customers, items, taxes, invoices, payments, quotes, now>>

\* void_payment through the end of its begin_nested block.
void_payment_flush(s, org, payment_id, reason, user) ==
  LET o == [name |-> "void_payment", round_trip |-> FALSE] IN
  /\ \A t \in Sessions : sessions[t] = Idle
  /\ IF ~get_payment_by_id(payment_id, org) THEN Fail(o, "NotFoundException")
     ELSE IF PaymentAlreadyVoided(payments[payment_id]) THEN Fail(o, "ValidationException")
     ELSE IF payments[payment_id].invoice_id \notin 1..Len(invoices)
          THEN Fail(o, "NotFoundException")
     ELSE LET payment == payments[payment_id] IN
          /\ sessions' = [sessions EXCEPT ![s] =
                [pc |-> "void_payment",
                 payment_id |-> payment_id,
                 payment |-> VoidPaymentUpdate(payment, reason, user),
                 invoice_id |-> payment.invoice_id,
                 invoice |-> VoidInvoiceBalance(invoices[payment.invoice_id],
                                                payment.amount)]]
          /\ Done([name |-> "void_payment_flush"], "ok")
          /\ before' = NoRow
          /\ UNCHANGED <<expenses, customers, items, taxes, invoices, payments, quotes, now>>

\* The payments table with the payment row the session has written.
WithPayment(s) ==
  IF sessions[s].payment_id = Len(payments) + 1
  THEN Append(payments, sessions[s].payment)
  ELSE [payments EXCEPT ![sessions[s].payment_id] = sessions[s].payment]

\* await db.commit(): every write of the session becomes visible at once.
session_commit(s) ==
  /\ sessions[s].pc \in {"record_payment", "void_payment"}
  /\ payments' = WithPayment(s)
  /\ invoices' = [invoices EXCEPT ![sessions[s].invoice_id] = sessions[s].invoice]
  /\ sessions' = [sessions EXCEPT ![s] = Idle]
  /\ Done(IF sessions[s].pc = "void_payment"
          THEN [name |-> "void_payment", round_trip |-> FALSE]
          ELSE [name |-> "record_payment"], "ok")
  /\ before' = NoRow
  /\ UNCHANGED <<expenses, customers, items, taxes, quotes, now>>

\* Mutant: the payment row written before the failure stays in the table.
PaymentsAfterFailure_Kept(s) == WithPayment(s)

\* get_db closes the session of a request that raised: the transaction is
\* rolled back and none of its writes reaches the tables.
PaymentsAfterFailure(s) == payments

\* The request raises after its writes and before its commit has taken
\* effect (connection lost, statement refused by the server).
session_failure(s) ==
  /\ sessions[s].pc \in {"record_payment", "void_payment"}
  /\ payments' = PaymentsAfterFailure(s)
  /\ sessions' = [sessions EXCEPT ![s] = Idle]
  /\ Done(IF sessions[s].pc = "void_payment"
          THEN [name |-> "void_payment", round_trip |-> FALSE]
          ELSE [name |-> "record_payment"], "OperationalError")
  /\ before' = NoRow
  /\ UNCHANGED <<expenses, customers, items, taxes, invoices, quotes, now>>

RecordPaymentFlush ==
  \E s \in Sessions, org \in Orgs, i \in InvoiceIds, a \in Amounts, u \in Users :
    record_payment_flush(s, org, i, a, u)

VoidPaymentFlush ==
  \E s \in Sessions, org \in Orgs, p \in PaymentIds, r \in Reasons, u \in Users :
    void_payment_flush(s, org, p, r, u)

SessionCommit == \E s \in Sessions : session_commit(s)

SessionFailure == \E s \in Sessions : session_failure(s)

\* Payments recorded and voided one request at a time, any of which may fail
\* before its commit.
NextFailure ==
  \/ CreateInvoice
  \/ SendInvoice
  \/ RecordPaymentFlush
  \/ VoidPaymentFlush
  \/ SessionCommit
  \/ SessionFailure

SpecFailure == Init /\ [][NextFailure]_vars

(* -------------------------- catalog changes --------------------------- *)

\* Bodies of PATCH /customers/{id} that carry is_active alone.
ActiveUpdates == {data \in CustomerUpdates : data.fields = {"is_active"}}

ItemIds == 1..Len(ItemFixture)

TaxIds == 1..Len(TaxFixture)

UpdateCustomerActive ==
  \E org \in Orgs, c \in CustomerIds, data \in ActiveUpdates : update_customer(org, c, data)

DeleteCustomer == \E org \in Orgs, c \in CustomerIds : delete_customer(org, c)

UpdateItem == \E org \in Orgs, i \in ItemIds, b \in BOOLEAN : update_item(org, i, b)

DeleteItem == \E org \in Orgs, i \in ItemIds : delete_item(org, i)

UpdateTax == \E org \in Orgs, t \in TaxIds, b \in BOOLEAN : update_tax(org, t, b)

DeleteTax == \E org \in Orgs, t \in TaxIds : delete_tax(org, t)

\* Documents created while customers, items and taxes are deactivated,
\* reactivated and deleted.
NextCatalog ==
  \/ CreateInvoice
  \/ CreateQuote
  \/ UpdateCustomerActive
  \/ DeleteCustomer
  \/ UpdateItem
  \/ DeleteItem
  \/ UpdateTax
  \/ DeleteTax

SpecCatalog == Init /\ [][NextCatalog]_vars

(* ----------------------------- customers ----------------------------- *)

\* Customers created, given another email or none, and deleted, one request
\* after another.
NextCustomers ==
  \/ \E org \in Orgs, e \in Emails \cup {""} : create_customer(MaxCustomers, org, e, TRUE)
  \/ \E org \in Orgs, c \in 1..MaxCustomers, data \in CustomerUpdates \ ActiveUpdates :
       update_customer(org, c, data)
  \/ \E org \in Orgs, c \in 1..MaxCustomers : delete_customer(org, c)

SpecCustomers == Init /\ [][NextCustomers]_vars

(* ------------------------------ tenants ------------------------------- *)

\* Requests of both organizations on invoices, payments, quotes and
\* expenses, each naming rows of its own or of the other organization.
NextTenant ==
  \/ CreateInvoice
  \/ SendInvoice
  \/ RecordPayment
  \/ VoidPayment
  \/ CreateQuote
  \/ SendQuote
  \/ \E org \in Orgs, data \in ExpenseCreates, u \in Users : create_expense(org, data, u)

SpecTenant == Init /\ [][NextTenant]_vars

\* Expenses created, changed and deleted, and customers deleted.
NextExpenses ==
  \/ \E org \in Orgs, data \in ExpenseCreates, u \in Users : create_expense(org, data, u)
  \/ \E org \in Orgs, e \in 1..MaxExpenses, data \in ExpenseUpdates :
       update_expense(org, e, data)
  \/ \E org \in Orgs, e \in 1..MaxExpenses : delete_expense(org, e)
  \/ DeleteCustomer

SpecExpenses == Init /\ [][NextExpenses]_vars

(* ------------------ rows with a status no method writes --------------- *)

\* models/invoice.py:45 and models/quote.py:49 document status values that no
\* service method writes (VIEWED, OVERDUE, EXPIRED); the service methods
\* take such rows as they take any other.  The specifications below start
\* from an empty database or from one sent document whose status column
\* holds one of them.
StoredInvoiceStatuses == {"VIEWED", "OVERDUE"}

StoredQuoteStatuses == {"VIEWED", "EXPIRED"}

StoredLines == <<[item_id |-> 0, quantity |-> 2500, rate |-> 1, tax_id |-> 1]>>

StoredInvoice(status) ==
  LET calculated == [k \in 1..Len(StoredLines) |->
                       LET line == StoredLines[k]
                           calc == calculate_line_item(line.quantity, line.rate,
                                                       TaxFixture[line.tax_id].rate)
                       IN  [item_id |-> line.item_id, quantity |-> line.quantity,
                            rate |-> line.rate, amount |-> calc.amount,
                            tax_id |-> line.tax_id,
                            tax_rate |-> TaxFixture[line.tax_id].rate,
                            tax_amount |-> calc.tax_amount, total |-> calc.total,
                            sort_order |-> k - 1]]
      total == Subtotal(calculated) + TaxTotal(calculated)
  IN  [organization_id |-> 1, customer_id |-> 1,
       invoice_number |-> FormatNumber("INV", 1), created_at |-> 1,
       status |-> status, is_deleted |-> FALSE,
       invoice_date |-> 1, due_date |-> 1,
       subtotal |-> Subtotal(calculated), tax_total |-> TaxTotal(calculated),
       total |-> total, amount_paid |-> 0, balance_due |-> total,
       currency_code |-> CustomerFixture[1].currency_code,
       payment_terms_days |-> CustomerFixture[1].payment_terms_days,
       notes |-> <<>>, items |-> calculated,
       sent_at |-> 1, paid_at |-> 0, voided_at |-> 0, void_reason |-> ""]

StoredQuote(status) ==
  LET inv == StoredInvoice(status)
  IN  [organization_id |-> 1, customer_id |-> 1,
       quote_number |-> FormatNumber("QT", 1), created_at |-> 1,
       status |-> status, is_deleted |-> FALSE,
       quote_date |-> 1, expiry_date |-> 2,
       subtotal |-> inv.subtotal, tax_total |-> inv.tax_total, total |-> inv.total,
       currency_code |-> inv.currency_code,
       notes |-> <<>>, items |-> inv.items,
       sent_at |-> 1, accepted_at |-> 0, rejected_at |-> 0,
       converted_at |-> 0, converted_invoice_id |-> 0]

InitStored ==
  /\ customers = CustomerFixture
  /\ items = ItemFixture
  /\ taxes = TaxFixture
  /\ invoices \in {<<>>} \cup { <<StoredInvoice(st)>> : st \in StoredInvoiceStatuses }
  /\ payments = <<>>
  /\ quotes = <<>>
  /\ now = 1
  /\ op = NoOp
  /\ result = "ok"
  /\ before = NoRow
  /\ sessions = [s \in Sessions |-> Idle]
  /\ expenses = <<>>

SpecStored == InitStored /\ [][Next]_vars

InitQuoteStored ==
  /\ customers = CustomerFixture
  /\ items = ItemFixture
  /\ taxes = TaxFixture
  /\ invoices = <<>>
  /\ payments = <<>>
  /\ quotes \in {<<>>} \cup { <<StoredQuote(st)>> : st \in StoredQuoteStatuses }
  /\ now = 1
  /\ op = NoOp
  /\ result = "ok"
  /\ before = NoRow
  /\ sessions = [s \in Sessions |-> Idle]
  /\ expenses = <<>>

SpecQuoteStored == InitQuoteStored /\ [][NextQuote]_vars

(* ------------------------------ claims -------------------------------- *)

InvoiceRows == 1..Len(invoices)

PaymentRows == 1..Len(payments)

InvoiceOf(i, org) == i \in InvoiceRows /\ invoices[i].organization_id = org

PaymentOf(p, org) == p \in PaymentRows /\ payments[p].organization_id = org

NonVoidedOf(i) == {p \in PaymentRows : payments[p].invoice_id = i /\ ~payments[p].is_voided}

RECURSIVE SumAmounts(_)
SumAmounts(ps) ==
  IF ps = {} THEN 0
  ELSE LET p == CHOOSE x \in ps : TRUE IN payments[p].amount + SumAmounts(ps \ {p})

\* C1: in every state reached by create_invoice, send_invoice, void_invoice,
\* record_payment and void_payment calls served one after another, every
\* invoice has balance_due = total - amount_paid, and amount_paid is the sum
\* of the amounts of its payments that are not voided.
C1_BalanceReconciles ==
  \A i \in InvoiceRows :
    /\ invoices[i].balance_due = invoices[i].total - invoices[i].amount_paid
    /\ invoices[i].amount_paid = SumAmounts(NonVoidedOf(i))

\* An invoice carrying one voided and one live payment, just after a void.
C1_Witness ==
  /\ op.name = "void_payment"
  /\ result = "ok"
  /\ \E i \in InvoiceRows :
       /\ invoices[i].amount_paid > 0
       /\ \E p \in PaymentRows : payments[p].invoice_id = i /\ payments[p].is_voided

\* C2: record_payment on an invoice that is VOID, is DRAFT, or whose
\* balance_due is below the requested amount fails with a validation failure
\* (NotFound when the organization has no such invoice) and leaves every
\* invoice and the payments as they were.
C2_RecordPaymentRejected ==
  [][\A org \in Orgs, i \in InvoiceIds, a \in Amounts, u \in Users :
       (op'.name = "record_payment" /\ record_payment(org, i, a, u)) =>
         /\ ~InvoiceOf(i, org) =>
              result' = "NotFoundException" /\ UNCHANGED <<invoices, payments>>
         /\ ( /\ InvoiceOf(i, org)
              /\ \/ invoices[i].status \in {"VOID", "DRAFT"}
                 \/ a > invoices[i].balance_due ) =>
              result' = "ValidationException" /\ UNCHANGED <<invoices, payments>>
    ]_vars

\* A payment above the balance of a partially paid invoice was refused.
C2_Witness ==
  /\ op.name = "record_payment"
  /\ result = "ValidationException"
  /\ Len(invoices) = 1
  /\ invoices[1].status = "PARTIALLY_PAID"
  /\ invoices[1].amount_paid > 0

\* C3: a successful record_payment of amount A appends exactly one payment,
\* not voided, of amount A for the invoice, raises amount_paid by A, sets
\* balance_due to total - amount_paid, and sets status PAID with paid_at
\* when the new balance_due is 0 and PARTIALLY_PAID otherwise.
C3_RecordPaymentEffect ==
  [][\A org \in Orgs, i \in InvoiceIds, a \in Amounts, u \in Users :
       (op'.name = "record_payment" /\ result' = "ok" /\ record_payment(org, i, a, u)) =>
         LET old == invoices[i]
             new == invoices'[i]
             n   == Len(payments)
         IN  /\ Len(payments') = n + 1
             /\ SubSeq(payments', 1, n) = payments
             /\ payments'[n + 1].invoice_id = i
             /\ payments'[n + 1].amount = a
             /\ payments'[n + 1].is_voided = FALSE
             /\ \A j \in InvoiceRows \ {i} : invoices'[j] = invoices[j]
             /\ new.total = old.total
             /\ new.amount_paid = old.amount_paid + a
             /\ new.balance_due = new.total - new.amount_paid
             /\ IF new.balance_due = 0
                THEN new.status = "PAID" /\ new.paid_at # 0
                ELSE new.status = "PARTIALLY_PAID"
    ]_vars

\* The second payment settled an invoice that the first had partially paid.
C3_Witness ==
  /\ op.name = "record_payment"
  /\ result = "ok"
  /\ Len(payments) = 2
  /\ \A p \in PaymentRows : ~payments[p].is_voided
  /\ \E i \in InvoiceRows :
       /\ invoices[i].status = "PAID"
       /\ before.status = "PARTIALLY_PAID"
       /\ \A p \in PaymentRows : payments[p].invoice_id = i

\* C4: when record_payment of amount A has succeeded and the very next
\* request voids that payment, the invoice has again the balance_due, the
\* amount_paid and the status it had immediately before the payment.
C4_RoundTripRestores ==
  (op.name = "void_payment" /\ result = "ok" /\ op.round_trip) =>
    LET i == payments[Len(payments)].invoice_id
    IN  /\ invoices[i].balance_due = before.balance_due
        /\ invoices[i].amount_paid = before.amount_paid
        /\ invoices[i].status = before.status

\* The round trip was made on a partially paid invoice that the payment settled.
C4_Witness ==
  /\ op.name = "void_payment"
  /\ result = "ok"
  /\ op.round_trip
  /\ before.status = "PARTIALLY_PAID"
  /\ before.balance_due = payments[Len(payments)].amount

\* C5: a successful void_payment lowers the invoice's amount_paid by the
\* payment amount and recomputes balance_due; if balance_due then equals
\* total, status becomes SENT when sent_at is set and DRAFT otherwise and
\* paid_at is cleared; else if balance_due > 0, status becomes
\* PARTIALLY_PAID and paid_at is cleared.
C5_VoidPaymentEffect ==
  [][\A org \in Orgs, p \in PaymentIds, r \in Reasons, u \in Users :
       (op'.name = "void_payment" /\ result' = "ok" /\ void_payment(org, p, r, u)) =>
         LET i   == payments[p].invoice_id
             old == invoices[i]
             new == invoices'[i]
         IN  /\ new.total = old.total
             /\ new.amount_paid = old.amount_paid - payments[p].amount
             /\ new.balance_due = new.total - new.amount_paid
             /\ new.balance_due = new.total =>
                  /\ new.status = IF old.sent_at # 0 THEN "SENT" ELSE "DRAFT"
                  /\ new.paid_at = 0
             /\ (new.balance_due # new.total /\ new.balance_due > 0) =>
                  /\ new.status = "PARTIALLY_PAID"
                  /\ new.paid_at = 0
    ]_vars

\* One of the two payments of a settled invoice was voided.
C5_Witness ==
  /\ op.name = "void_payment"
  /\ result = "ok"
  /\ \E i \in InvoiceRows :
       /\ invoices[i].status = "PARTIALLY_PAID"
       /\ invoices[i].paid_at = 0
       /\ \E p \in PaymentRows :
            /\ payments[p].invoice_id = i
            /\ payments[p].is_voided
            /\ payments[p].amount + invoices[i].amount_paid = invoices[i].total

\* C6: void_payment on a voided payment fails with a validation failure and
\* changes neither the payment nor any invoice; in every step the payment
\* rows only grow in number, keep their invoice, amount and number, and a
\* voided payment stays exactly as it is.
C6_VoidIsPermanent ==
  [][/\ \A org \in Orgs, p \in PaymentIds, r \in Reasons, u \in Users :
          ( /\ op'.name = "void_payment"
            /\ PaymentOf(p, org)
            /\ payments[p].is_voided
            /\ void_payment(org, p, r, u) ) =>
            result' = "ValidationException" /\ UNCHANGED <<invoices, payments>>
     /\ Len(payments') >= Len(payments)
     /\ \A p \in PaymentRows :
          /\ payments'[p].invoice_id = payments[p].invoice_id
          /\ payments'[p].amount = payments[p].amount
          /\ payments'[p].payment_number = payments[p].payment_number
          /\ payments[p].is_voided => payments'[p] = payments[p]
    ]_vars

\* A second void of the only payment was refused.
C6_Witness ==
  /\ op.name = "void_payment"
  /\ result = "ValidationException"
  /\ Len(payments) = 1
  /\ payments[1].is_voided
  /\ invoices[payments[1].invoice_id].amount_paid = 0

\* C7: void_invoice fails with a validation failure and leaves the invoice
\* unchanged when its status is VOID or PAID; from every other status it sets
\* status VOID, voided_at and void_reason and nothing else.  A void_payment
\* on a PAID invoice leaves it in a status from which void_invoice succeeds.
C7_VoidInvoice ==
  [][/\ \A org \in Orgs, i \in InvoiceIds, r \in Reasons :
          (op'.name = "void_invoice" /\ InvoiceOf(i, org) /\ void_invoice(org, i, r)) =>
            IF invoices[i].status \in {"VOID", "PAID"}
            THEN result' = "ValidationException" /\ UNCHANGED <<invoices, payments>>
            ELSE /\ result' = "ok"
                 /\ invoices'[i].voided_at # 0
                 /\ invoices'[i] = [invoices[i] EXCEPT !.status = "VOID",
                                                       !.voided_at = invoices'[i].voided_at,
                                                       !.void_reason = r]
     /\ \A org \in Orgs, p \in PaymentIds, r \in Reasons, u \in Users :
          ( /\ op'.name = "void_payment"
            /\ result' = "ok"
            /\ void_payment(org, p, r, u)
            /\ invoices[payments[p].invoice_id].status = "PAID" ) =>
            invoices'[payments[p].invoice_id].status \notin {"VOID", "PAID"}
    ]_vars

\* An invoice that one payment had settled was voided after that payment.
C7_Witness ==
  /\ op.name = "void_invoice"
  /\ result = "ok"
  /\ \E i \in InvoiceRows :
       /\ invoices[i].status = "VOID"
       /\ invoices[i].void_reason \in Reasons
       /\ invoices[i].amount_paid = 0
       /\ \E p \in PaymentRows :
            /\ payments[p].invoice_id = i
            /\ payments[p].is_voided
            /\ payments[p].amount = invoices[i].total

QuoteRows == 1..Len(quotes)

QuoteOf(q, org) == q \in QuoteRows /\ quotes[q].organization_id = org

\* C8: send_invoice turns a DRAFT invoice into SENT and sets sent_at, and
\* nothing else; on an invoice whose status is neither DRAFT nor SENT
\* (PARTIALLY_PAID, PAID, VOID, VIEWED, OVERDUE) it fails with a validation
\* failure and leaves every invoice as it was.
C8_SendInvoice ==
  [][\A org \in Orgs, i \in InvoiceIds :
       (op'.name = "send_invoice" /\ InvoiceOf(i, org) /\ send_invoice(org, i)) =>
         /\ invoices[i].status = "DRAFT" =>
              /\ result' = "ok"
              /\ invoices'[i].sent_at # 0
              /\ invoices'[i] = [invoices[i] EXCEPT !.status = "SENT",
                                                    !.sent_at = invoices'[i].sent_at]
         /\ invoices[i].status \notin {"DRAFT", "SENT"} =>
              result' = "ValidationException" /\ UNCHANGED <<invoices, payments>>
    ]_vars

\* Sending an OVERDUE invoice was refused.
C8_Witness ==
  /\ op.name = "send_invoice"
  /\ result = "ValidationException"
  /\ Len(invoices) = 1
  /\ invoices[1].status = "OVERDUE"
  /\ invoices[1].sent_at # 0

\* C9: send_invoice on a SENT invoice and send_quote on a SENT quote succeed
\* and leave the documents exactly as they were; sent_at of a document changes
\* only in a step that takes it from DRAFT to SENT.
C9_SendIdempotent ==
  [][/\ \A org \in Orgs, i \in InvoiceIds :
          ( /\ op'.name = "send_invoice"
            /\ InvoiceOf(i, org)
            /\ invoices[i].status = "SENT"
            /\ send_invoice(org, i) ) =>
            result' = "ok" /\ UNCHANGED <<invoices, quotes>>
     /\ \A org \in Orgs, q \in QuoteIds :
          ( /\ op'.name = "send_quote"
            /\ QuoteOf(q, org)
            /\ quotes[q].status = "SENT"
            /\ send_quote(org, q) ) =>
            result' = "ok" /\ UNCHANGED <<invoices, quotes>>
     /\ \A i \in InvoiceRows :
          invoices'[i].sent_at # invoices[i].sent_at =>
            invoices[i].status = "DRAFT" /\ invoices'[i].status = "SENT"
     /\ \A q \in QuoteRows :
          quotes'[q].sent_at # quotes[q].sent_at =>
            quotes[q].status = "DRAFT" /\ quotes'[q].status = "SENT"
    ]_vars

\* A quote sent at instant 1 was sent again at instant 2 and kept sent_at 1.
C9_Witness ==
  /\ op.name = "send_quote"
  /\ result = "ok"
  /\ now = 2
  /\ Len(quotes) = 1
  /\ quotes[1].status = "SENT"
  /\ quotes[1].sent_at = 1

\* The status steps of the quote engine.
QuoteStep(name, from, to) ==
  \/ name = "send_quote" /\ from = "DRAFT" /\ to = "SENT"
  \/ name = "accept_quote" /\ from \in {"SENT", "VIEWED"} /\ to = "ACCEPTED"
  \/ name = "reject_quote" /\ from \in {"SENT", "VIEWED"} /\ to = "REJECTED"
  \/ name = "convert_to_invoice" /\ from = "ACCEPTED" /\ to = "CONVERTED"

QuoteStatusStepsLegal ==
  \A q \in QuoteRows :
    quotes'[q].status # quotes[q].status =>
      QuoteStep(op'.name, quotes[q].status, quotes'[q].status)

\* A call from a status that is no source of its step is refused.
QuoteCallsRefused(send_sources) ==
  /\ \A org \in Orgs, q \in QuoteIds :
       ( /\ op'.name = "send_quote"
         /\ QuoteOf(q, org)
         /\ quotes[q].status \notin send_sources
         /\ send_quote(org, q) ) =>
         result' = "ValidationException" /\ quotes'[q].status = quotes[q].status
  /\ \A org \in Orgs, q \in QuoteIds, n \in BOOLEAN :
       ( /\ op'.name = "accept_quote"
         /\ QuoteOf(q, org)
         /\ quotes[q].status \notin {"SENT", "VIEWED"}
         /\ accept_quote(org, q, n) ) =>
         result' = "ValidationException" /\ quotes'[q].status = quotes[q].status
  /\ \A org \in Orgs, q \in QuoteIds, r \in Reasons :
       ( /\ op'.name = "reject_quote"
         /\ QuoteOf(q, org)
         /\ quotes[q].status \notin {"SENT", "VIEWED"}
         /\ reject_quote(org, q, r) ) =>
         result' = "ValidationException" /\ quotes'[q].status = quotes[q].status
  /\ \A org \in Orgs, q \in QuoteIds, u \in Users :
       ( /\ op'.name = "convert_to_invoice"
         /\ QuoteOf(q, org)
         /\ quotes[q].status # "ACCEPTED"
         /\ convert_to_invoice(org, q, u) ) =>
         result' = "ValidationException" /\ quotes'[q].status = quotes[q].status

\* C10 as claimed: every change of a quote's status is DRAFT to SENT (send),
\* SENT or VIEWED to ACCEPTED (accept), SENT or VIEWED to REJECTED (reject) or
\* ACCEPTED to CONVERTED (convert), and every call from any other source
\* status, send_quote on a SENT quote included, fails with a validation
\* failure and leaves the status unchanged.
C10_Original ==
  [][QuoteStatusStepsLegal /\ QuoteCallsRefused({"DRAFT"})]_vars

\* C10 as amended: the same, except that send_quote on a SENT quote is not
\* refused (it succeeds and changes nothing, see C9); send_quote fails from
\* every status other than DRAFT and SENT.
C10_QuoteTransitions ==
  [][QuoteStatusStepsLegal /\ QuoteCallsRefused({"DRAFT", "SENT"})]_vars

\* Sending a VIEWED quote was refused.
C10_Witness ==
  /\ op.name = "send_quote"
  /\ result = "ValidationException"
  /\ Len(quotes) = 1
  /\ quotes[1].status = "VIEWED"

\* C11: accept_quote on a SENT or VIEWED quote succeeds exactly when its
\* expiry_date is not before today (an expiry_date equal to today is still
\* accepted); when expiry_date is before today the call fails with a
\* validation failure and the quote keeps its status, accepted_at and notes.
C11_AcceptExpiry ==
  [][\A org \in Orgs, q \in QuoteIds, n \in BOOLEAN :
       ( /\ op'.name = "accept_quote"
         /\ QuoteOf(q, org)
         /\ quotes[q].status \in {"SENT", "VIEWED"}
         /\ accept_quote(org, q, n) ) =>
         IF quotes[q].expiry_date >= now
         THEN /\ result' = "ok"
              /\ quotes'[q].status = "ACCEPTED"
              /\ quotes'[q].accepted_at # 0
         ELSE /\ result' = "ValidationException"
              /\ quotes'[q].status = quotes[q].status
              /\ quotes'[q].accepted_at = quotes[q].accepted_at
              /\ quotes'[q].notes = quotes[q].notes
    ]_vars

\* A quote was accepted on the day it expires.
C11_Witness ==
  /\ op.name = "accept_quote"
  /\ result = "ok"
  /\ now = 2
  /\ \E q \in QuoteRows :
       /\ quotes[q].status = "ACCEPTED"
       /\ quotes[q].expiry_date = 2
       /\ quotes[q].accepted_at = 2

\* C12: a successful convert_to_invoice appends exactly one invoice with
\* status DRAFT, amount_paid 0, balance_due equal to the quote's total, the
\* quote's subtotal, tax_total and total, and one line item per quote line
\* item with the same quantity, rate, amount, tax_rate, tax_amount, total and
\* sort_order; in the same step the quote becomes CONVERTED and its
\* converted_invoice_id is the new invoice.
C12_ConvertCopies ==
  [][\A org \in Orgs, q \in QuoteIds, u \in Users :
       ( /\ op'.name = "convert_to_invoice"
         /\ result' = "ok"
         /\ convert_to_invoice(org, q, u) ) =>
         LET n     == Len(invoices)
             quote == quotes[q]
             inv   == invoices'[n + 1]
         IN  /\ Len(invoices') = n + 1
             /\ SubSeq(invoices', 1, n) = invoices
             /\ inv.status = "DRAFT"
             /\ inv.amount_paid = 0
             /\ inv.balance_due = quote.total
             /\ inv.subtotal = quote.subtotal
             /\ inv.tax_total = quote.tax_total
             /\ inv.total = quote.total
             /\ Len(inv.items) = Len(quote.items)
             /\ \A k \in 1..Len(quote.items) :
                  /\ inv.items[k].quantity = quote.items[k].quantity
                  /\ inv.items[k].rate = quote.items[k].rate
                  /\ inv.items[k].amount = quote.items[k].amount
                  /\ inv.items[k].tax_rate = quote.items[k].tax_rate
                  /\ inv.items[k].tax_amount = quote.items[k].tax_amount
                  /\ inv.items[k].total = quote.items[k].total
                  /\ inv.items[k].sort_order = quote.items[k].sort_order
             /\ quotes'[q].status = "CONVERTED"
             /\ quotes'[q].converted_invoice_id = n + 1
             /\ \A j \in QuoteRows \ {q} : quotes'[j] = quotes[j]
    ]_vars

\* A quote with a taxed line was converted; the invoice carries the tax.
C12_Witness ==
  /\ op.name = "convert_to_invoice"
  /\ result = "ok"
  /\ \E q \in QuoteRows :
       /\ quotes[q].status = "CONVERTED"
       /\ quotes[q].converted_invoice_id \in InvoiceRows
       /\ invoices[quotes[q].converted_invoice_id].items[1].tax_amount > 0
       /\ invoices[quotes[q].converted_invoice_id].status = "DRAFT"

ConvertedQuotes == {q \in QuoteRows : quotes[q].converted_invoice_id # 0}

\* C13: with requests served one after another, convert_to_invoice on a
\* quote that has been converted fails with a validation failure, creates
\* no invoice and leaves the quote as it was; a converted_invoice_id, once
\* set, never changes; and there is exactly one invoice per converted quote
\* (every invoice of this specification comes from a conversion).
C13_ConvertOnce ==
  [][/\ \A org \in Orgs, q \in QuoteIds, u \in Users :
          ( /\ op'.name = "convert_to_invoice"
            /\ QuoteOf(q, org)
            /\ quotes[q].converted_invoice_id # 0
            /\ convert_to_invoice(org, q, u) ) =>
            result' = "ValidationException" /\ UNCHANGED <<invoices, quotes>>
     /\ \A q \in ConvertedQuotes :
          quotes'[q].converted_invoice_id = quotes[q].converted_invoice_id
     /\ Len(invoices') = Cardinality({q \in 1..Len(quotes') :
                                       quotes'[q].converted_invoice_id # 0})
     /\ \A q1, q2 \in 1..Len(quotes') :
          ( /\ quotes'[q1].converted_invoice_id # 0
            /\ quotes'[q1].converted_invoice_id = quotes'[q2].converted_invoice_id ) =>
            q1 = q2
    ]_vars

\* A second conversion of a converted quote was refused; one invoice exists.
C13_Witness ==
  /\ op.name = "convert_to_invoice"
  /\ result = "ValidationException"
  /\ Len(invoices) = 1
  /\ \E q \in QuoteRows :
       quotes[q].status = "CONVERTED" /\ quotes[q].converted_invoice_id = 1

\* Position of invoice i among the invoices of its organization, in creation order.
RankInOrg(i) ==
  Cardinality({j \in 1..i : invoices[j].organization_id = invoices[i].organization_id})

\* C14: invoices created one after another in an organization that had none
\* carry INV-00001, INV-00002, ... in creation order: the k-th invoice of the
\* organization has number k, zero-padded to 5 digits.
C14_SequentialNumbers ==
  \A i \in InvoiceRows : invoices[i].invoice_number = FormatNumber("INV", RankInOrg(i))

\* C15: document numbers are never reused within an organization and
\* document type, also when requests overlap: whatever the interleaving of
\* two create_invoice requests of one organization, two committed invoices
\* of the organization never carry the same invoice_number.
C15_NumbersUnique ==
  \A i, j \in InvoiceRows :
    ( /\ i # j
      /\ invoices[i].organization_id = invoices[j].organization_id ) =>
      invoices[i].invoice_number # invoices[j].invoice_number

\* C16: with requests served one after another, a record_gateway_payment
\* call whose gateway_payment_id already belongs to a payment of the
\* organization returns that payment, creates no payment and leaves the
\* invoices as they were.
C16_GatewayIdempotent ==
  [][\A org \in Orgs, i \in InvoiceIds, a \in Amounts, g \in GatewayPaymentIds :
       ( /\ op'.name = "record_gateway_payment"
         /\ InvoiceOf(i, org)
         /\ ExistingGatewayPayments(org, g) # {}
         /\ record_gateway_payment(org, i, a, g) ) =>
         /\ result' = "ok"
         /\ op'.returned \in ExistingGatewayPayments(org, g)
         /\ UNCHANGED <<invoices, payments>>
    ]_vars

\* One payment per external identifier recorded for invoice i.
OnePerGatewayId(i) ==
  {CHOOSE p \in PaymentRows : /\ payments[p].invoice_id = i
                              /\ payments[p].gateway_payment_id = g :
     g \in {h \in GatewayPaymentIds :
              \E p \in PaymentRows : /\ payments[p].invoice_id = i
                                     /\ payments[p].gateway_payment_id = h}}

\* C17: whatever the interleaving of two record_gateway_payment requests
\* that carry the same gateway_payment_id for the same invoice, at most one
\* payment row with that identifier is committed, and the invoice's
\* amount_paid holds the amount of each external payment at most once.
C17_GatewayAppliedOnce ==
  /\ \A org \in Orgs, g \in GatewayPaymentIds :
       Cardinality(ExistingGatewayPayments(org, g)) <= 1
  /\ \A i \in InvoiceRows :
       invoices[i].amount_paid <= SumAmounts(OnePerGatewayId(i))

\* C18: record_payment and void_payment are all-or-nothing: with requests
\* that may fail at any point before their commit, in every committed state
\* each invoice's amount_paid is the sum of its non-voided payments,
\* balance_due is total - amount_paid, and status agrees with the amounts,
\* so no payment is created or voided without its invoice update, nor the
\* reverse.
C18_AllOrNothing ==
  \A i \in InvoiceRows :
    /\ invoices[i].amount_paid = SumAmounts(NonVoidedOf(i))
    /\ invoices[i].balance_due = invoices[i].total - invoices[i].amount_paid
    /\ invoices[i].amount_paid = 0 => invoices[i].status \in {"DRAFT", "SENT"}
    /\ ( /\ invoices[i].amount_paid > 0
         /\ invoices[i].balance_due > 0 ) => invoices[i].status = "PARTIALLY_PAID"
    /\ ( /\ invoices[i].amount_paid > 0
         /\ invoices[i].balance_due = 0 ) => invoices[i].status = "PAID"

\* A second payment failed before its commit; the first is still the only one.
C18_Witness ==
  /\ op.name = "record_payment"
  /\ result = "OperationalError"
  /\ Len(payments) = 1
  /\ \E i \in InvoiceRows :
       invoices[i].status = "PARTIALLY_PAID" /\ invoices[i].amount_paid = payments[1].amount

\* a is x / d rounded to the nearest integer (either neighbour on a tie).
Nearest(a, x, d) == 2 * a * d - 2 * x <= d /\ 2 * x - 2 * a * d <= d

\* C19: for quantity > 0, rate >= 0 and tax_rate in [0, 100], the invoice and
\* the quote line item calculations return the same result, in which amount
\* is quantity * rate rounded to 2 fraction digits, tax_amount is
\* amount * tax_rate / 100 rounded to 2 fraction digits, and total is
\* amount + tax_amount.
C19_LineItemCalculation ==
  op.name = "_calculate_line_item" =>
    /\ op.invoice_item = op.quote_item
    /\ Nearest(op.invoice_item.amount, op.quantity * op.rate, 1000)
    /\ Nearest(op.invoice_item.tax_amount, op.invoice_item.amount * op.tax_rate, 10000)
    /\ op.invoice_item.total = op.invoice_item.amount + op.invoice_item.tax_amount

\* A line whose product ends in half a cent and whose tax needs rounding.
C19_Witness ==
  /\ op.name = "_calculate_line_item"
  /\ (op.quantity * op.rate) % 1000 = 500
  /\ (op.quote_item.amount * op.tax_rate) % 10000 # 0
  /\ op.quote_item.tax_amount > 0

RECURSIVE ItemSum(_, _)
ItemSum(rows, field) ==
  IF rows = <<>> THEN 0 ELSE rows[1][field] + ItemSum(Tail(rows), field)

\* C20: a document created by create_invoice or create_quote from a list of
\* one or more valid line items has subtotal equal to the sum of its line
\* amounts, tax_total equal to the sum of its line tax_amounts and
\* total = subtotal + tax_total; a created invoice has status DRAFT,
\* amount_paid 0 and balance_due equal to total.
C20_DocumentTotals ==
  /\ \A i \in InvoiceRows :
       /\ Len(invoices[i].items) >= 1
       /\ invoices[i].subtotal = ItemSum(invoices[i].items, "amount")
       /\ invoices[i].tax_total = ItemSum(invoices[i].items, "tax_amount")
       /\ invoices[i].total = invoices[i].subtotal + invoices[i].tax_total
       /\ invoices[i].status = "DRAFT"
       /\ invoices[i].amount_paid = 0
       /\ invoices[i].balance_due = invoices[i].total
  /\ \A q \in QuoteRows :
       /\ Len(quotes[q].items) >= 1
       /\ quotes[q].subtotal = ItemSum(quotes[q].items, "amount")
       /\ quotes[q].tax_total = ItemSum(quotes[q].items, "tax_amount")
       /\ quotes[q].total = quotes[q].subtotal + quotes[q].tax_total

\* An invoice of 2.000 x 100.00 taxed at 50 % and 1.000 x 50.00 untaxed:
\* subtotal 250.00, tax_total 100.00, total 350.00.
C20_Witness ==
  /\ op.name = "create_invoice"
  /\ result = "ok"
  /\ Len(invoices) = 1
  /\ Len(invoices[1].items) = 2
  /\ invoices[1].subtotal = 25000
  /\ invoices[1].tax_total = 10000
  /\ invoices[1].total = 35000
  /\ invoices[1].balance_due = 35000

\* An entity a document may refer to, as the claim has it: of the
\* organization, not deleted and active.
ActiveCustomer(c, org) == FindCustomer(c, org) /\ customers[c].is_active

ActiveItem(i, org) == FindItem(i, org) /\ items[i].is_active

ActiveTax(t, org) == FindTax(t, org) /\ taxes[t].is_active

LineActive(line, org) ==
  /\ line.item_id # 0 => ActiveItem(line.item_id, org)
  /\ line.tax_id # 0 => ActiveTax(line.tax_id, org)

\* C21: create_invoice and create_quote signal NotFound and create nothing
\* when the customer, or (the dates being valid) an item or tax of a line, is
\* deleted, inactive or of another organization; a line with no tax
\* reference is computed with tax rate 0.
C21_ActiveReferences ==
  [][/\ \A org \in Orgs, c \in CustomerIds, d \in InvoiceDatePairs, lines \in LineLists :
          (op'.name = "create_invoice" /\ create_invoice(org, c, d[1], d[2], lines)) =>
            /\ ( \/ ~ActiveCustomer(c, org)
                 \/ /\ d[2] >= d[1]
                    /\ \E k \in 1..Len(lines) : ~LineActive(lines[k], org) ) =>
                 result' = "NotFoundException" /\ UNCHANGED <<invoices, quotes>>
            /\ result' = "ok" =>
                 \A k \in 1..Len(lines) :
                   lines[k].tax_id = 0 =>
                     /\ invoices'[Len(invoices')].items[k].tax_rate = 0
                     /\ invoices'[Len(invoices')].items[k].tax_amount = 0
     /\ \A org \in Orgs, c \in CustomerIds, d \in QuoteDatePairs, lines \in LineLists :
          (op'.name = "create_quote" /\ create_quote(org, c, d[1], d[2], lines)) =>
            /\ ( \/ ~ActiveCustomer(c, org)
                 \/ /\ d[2] >= d[1]
                    /\ \E k \in 1..Len(lines) : ~LineActive(lines[k], org) ) =>
                 result' = "NotFoundException" /\ UNCHANGED <<invoices, quotes>>
            /\ result' = "ok" =>
                 \A k \in 1..Len(lines) :
                   lines[k].tax_id = 0 =>
                     /\ quotes'[Len(quotes')].items[k].tax_rate = 0
                     /\ quotes'[Len(quotes')].items[k].tax_amount = 0
    ]_vars

\* Row `id` of `rows` exists and belongs to another organization than org.
Foreign(rows, id, org) == id \in 1..Len(rows) /\ rows[id].organization_id # org

\* The rows that do not belong to org, in table order.
RowsOfOthers(rows, org) ==
  LET Other(r) == r.organization_id # org IN SelectSeq(rows, Other)

\* The step leaves the invoices, quotes and payments of every organization
\* other than org, and the numbers their next documents get, as they were.
OthersUntouched(org) ==
  /\ RowsOfOthers(invoices', org) = RowsOfOthers(invoices, org)
  /\ RowsOfOthers(quotes', org) = RowsOfOthers(quotes, org)
  /\ RowsOfOthers(payments', org) = RowsOfOthers(payments, org)
  /\ \A b \in Orgs \ {org} :
       /\ NextNumber(invoices', b, "invoice_number") = NextNumber(invoices, b, "invoice_number")
       /\ NextNumber(quotes', b, "quote_number") = NextNumber(quotes, b, "quote_number")
       /\ NextNumber(payments', b, "payment_number") = NextNumber(payments, b, "payment_number")

LineForeign(line, org) ==
  \/ line.item_id # 0 /\ Foreign(items, line.item_id, org)
  \/ line.tax_id # 0 /\ Foreign(taxes, line.tax_id, org)

\* C22: a request of organization A that names an invoice, quote, payment,
\* customer, item or tax of organization B signals NotFound, and no request
\* of organization A changes an invoice, quote, payment or next document
\* number of organization B.
C22_TenantIsolation ==
  [][/\ \A org \in Orgs, c \in CustomerIds, d \in InvoiceDatePairs, lines \in LineLists :
          (op'.name = "create_invoice" /\ create_invoice(org, c, d[1], d[2], lines)) =>
            /\ OthersUntouched(org)
            /\ ( \/ Foreign(customers, c, org)
                 \/ /\ d[2] >= d[1]
                    /\ \E k \in 1..Len(lines) : LineForeign(lines[k], org) ) =>
                 result' = "NotFoundException"
     /\ \A org \in Orgs, c \in CustomerIds, d \in QuoteDatePairs, lines \in LineLists :
          (op'.name = "create_quote" /\ create_quote(org, c, d[1], d[2], lines)) =>
            /\ OthersUntouched(org)
            /\ ( \/ Foreign(customers, c, org)
                 \/ /\ d[2] >= d[1]
                    /\ \E k \in 1..Len(lines) : LineForeign(lines[k], org) ) =>
                 result' = "NotFoundException"
     /\ \A org \in Orgs, i \in InvoiceIds :
          (op'.name = "send_invoice" /\ send_invoice(org, i)) =>
            /\ OthersUntouched(org)
            /\ Foreign(invoices, i, org) => result' = "NotFoundException"
     /\ \A org \in Orgs, q \in QuoteIds :
          (op'.name = "send_quote" /\ send_quote(org, q)) =>
            /\ OthersUntouched(org)
            /\ Foreign(quotes, q, org) => result' = "NotFoundException"
     /\ \A org \in Orgs, i \in InvoiceIds, a \in Amounts, u \in Users :
          (op'.name = "record_payment" /\ record_payment(org, i, a, u)) =>
            /\ OthersUntouched(org)
            /\ Foreign(invoices, i, org) => result' = "NotFoundException"
     /\ \A org \in Orgs, p \in PaymentIds, r \in Reasons, u \in Users :
          (op'.name = "void_payment" /\ void_payment(org, p, r, u)) =>
            /\ OthersUntouched(org)
            /\ Foreign(payments, p, org) => result' = "NotFoundException"
     /\ \A org \in Orgs, data \in ExpenseCreates, u \in Users :
          (op'.name = "create_expense" /\ create_expense(org, data, u)) =>
            /\ OthersUntouched(org)
            /\ Foreign(customers, data.customer_id, org) => result' = "NotFoundException"
    ]_vars

\* Non-deleted customers of org other than `except` whose email is `email`
\* in some spelling.
HoldersOf(org, email, except) ==
  {c \in 1..Len(customers) : /\ customers[c].organization_id = org
                             /\ customers[c].is_deleted = FALSE
                             /\ c # except
                             /\ customers[c].email # ""
                             /\ Lower(customers[c].email) = Lower(email)}

\* C23: after every create_customer, update_customer and delete_customer
\* call no two non-deleted customers of one organization have the same
\* email, whatever its spelling; a create or update that would produce such
\* a pair fails with a duplicate conflict and changes no customer; a create
\* with an email that only deleted customers hold succeeds.
C23_EmailUnique ==
  [][/\ \A c1, c2 \in 1..Len(customers') :
          ( /\ c1 # c2
            /\ customers'[c1].organization_id = customers'[c2].organization_id
            /\ ~customers'[c1].is_deleted /\ ~customers'[c2].is_deleted
            /\ customers'[c1].email # "" ) =>
            Lower(customers'[c1].email) # Lower(customers'[c2].email)
     /\ \A org \in Orgs, e \in Emails :
          (op'.name = "create_customer" /\ create_customer(MaxCustomers, org, e, TRUE)) =>
            IF HoldersOf(org, e, 0) # {}
            THEN result' = "DuplicateException" /\ UNCHANGED customers
            ELSE /\ result' = "ok"
                 /\ Len(customers') = Len(customers) + 1
                 /\ customers'[Len(customers')].email = Lower(e)
     /\ \A org \in Orgs, c \in 1..MaxCustomers, data \in CustomerUpdates \ ActiveUpdates :
          ( /\ op'.name = "update_customer"
            /\ FindCustomer(c, org)
            /\ data.email # ""
            /\ update_customer(org, c, data) ) =>
            IF HoldersOf(org, data.email, c) # {}
            THEN result' = "DuplicateException" /\ UNCHANGED customers
            ELSE result' = "ok" /\ customers'[c].email = Lower(data.email)
    ]_vars

\* An email that a deleted customer holds was given to a new customer.
C23_Witness ==
  /\ op.name = "create_customer"
  /\ result = "ok"
  /\ Len(customers) = MaxCustomers
  /\ customers[Len(customers)].email = "a@x.io"
  /\ \E c \in 1..Len(customers) :
       /\ customers[c].is_deleted
       /\ customers[c].email = "a@x.io"
       /\ customers[c].organization_id = customers[Len(customers)].organization_id

\* The expense `expense_id` as the body `data` of an update would leave it.
ExpenseAfter(expense_id, data) ==
  [is_billable |-> IF "is_billable" \in data.fields
                   THEN data.is_billable ELSE expenses[expense_id].is_billable,
   customer_id |-> IF "customer_id" \in data.fields
                   THEN data.customer_id ELSE expenses[expense_id].customer_id]

\* C24: after every create_expense and update_expense call each non-deleted
\* billable expense has a customer_id, which referred to a non-deleted
\* customer of the expense's organization when the call set it; a create or
\* update that would leave a billable expense without a customer fails with
\* a validation failure and changes no expense.
C24_BillableHasCustomer ==
  [][/\ \A e \in 1..Len(expenses') :
          (~expenses'[e].is_deleted /\ expenses'[e].is_billable) =>
            /\ expenses'[e].customer_id # 0
            /\ (e \notin 1..Len(expenses) \/ expenses'[e] # expenses[e]) =>
                 FindCustomer(expenses'[e].customer_id, expenses'[e].organization_id)
     /\ \A org \in Orgs, data \in ExpenseCreates, u \in Users :
          ( /\ op'.name = "create_expense"
            /\ data.is_billable /\ data.customer_id = 0
            /\ create_expense(org, data, u) ) =>
            result' = "ValidationException" /\ UNCHANGED expenses
     /\ \A org \in Orgs, e \in 1..MaxExpenses, data \in ExpenseUpdates :
          ( /\ op'.name = "update_expense"
            /\ get_expense_by_id(e, org)
            /\ ExpenseAfter(e, data).is_billable
            /\ ExpenseAfter(e, data).customer_id = 0
            /\ update_expense(org, e, data) ) =>
            result' = "ValidationException" /\ UNCHANGED expenses
    ]_vars

\* C25: whatever the interleaving of two convert_to_invoice requests on one
\* ACCEPTED quote, at most one invoice is created from the quote: there are
\* never more invoices than converted quotes (every invoice of this
\* specification comes from a conversion).
C25_ConvertAtMostOnce == Len(invoices) <= Cardinality(ConvertedQuotes)

\* C26: whatever the interleaving of two record_payment requests on one
\* invoice, the amounts of the invoice's payments that are not voided sum to
\* at most the invoice total, and to exactly the committed amount_paid.
C26_PaymentsWithinTotal ==
  \A i \in InvoiceRows :
    /\ SumAmounts(NonVoidedOf(i)) <= invoices[i].total
    /\ SumAmounts(NonVoidedOf(i)) = invoices[i].amount_paid

\* C27: VOID is terminal: in every step of send_invoice, record_payment,
\* void_payment and void_invoice calls, an invoice whose status is VOID still
\* has status VOID afterwards, also when the call voids a payment that was
\* recorded on the invoice before it was voided.
C27_VoidTerminal ==
  [][\A i \in InvoiceRows :
       invoices[i].status = "VOID" => invoices'[i].status = "VOID"]_vars

\* C28: with manual and gateway payments recorded and payments voided one
\* request at a time, every invoice has 0 <= amount_paid <= total and
\* 0 <= balance_due <= total.
C28_AmountsWithinTotal ==
  \A i \in InvoiceRows :
    /\ 0 <= invoices[i].amount_paid
    /\ invoices[i].amount_paid <= invoices[i].total
    /\ 0 <= invoices[i].balance_due
    /\ invoices[i].balance_due <= invoices[i].total

\* C29: with invoices created, sent, paid and their payments voided one
\* request at a time, the status of every invoice that is not VOID follows
\* from its amounts: PAID exactly when amount_paid > 0 and balance_due = 0,
\* and then paid_at is set; PARTIALLY_PAID exactly when 0 < amount_paid <
\* total; DRAFT or SENT exactly when amount_paid = 0, and then paid_at is
\* empty.
C29_StatusFromAmounts ==
  \A i \in InvoiceRows :
    invoices[i].status # "VOID" =>
      /\ invoices[i].status = "PAID" <=>
           (invoices[i].amount_paid > 0 /\ invoices[i].balance_due = 0)
      /\ invoices[i].status = "PAID" => invoices[i].paid_at # 0
      /\ invoices[i].status = "PARTIALLY_PAID" <=>
           (0 < invoices[i].amount_paid /\ invoices[i].amount_paid < invoices[i].total)
      /\ invoices[i].status \in {"DRAFT", "SENT"} <=> invoices[i].amount_paid = 0
      /\ invoices[i].amount_paid = 0 => invoices[i].paid_at = 0

\* An invoice that two payments had settled is PARTIALLY_PAID again, with
\* paid_at empty, after one of them was voided.
C29_Witness ==
  /\ op.name = "void_payment"
  /\ result = "ok"
  /\ \E i \in InvoiceRows :
       /\ invoices[i].status = "PARTIALLY_PAID"
       /\ invoices[i].paid_at = 0
       /\ invoices[i].sent_at # 0
       /\ \E p, q \in PaymentRows :
            /\ payments[p].invoice_id = i /\ payments[p].is_voided
            /\ payments[q].invoice_id = i /\ ~payments[q].is_voided
            /\ payments[p].amount + payments[q].amount = invoices[i].total
            /\ payments[q].amount = invoices[i].amount_paid

\* C30: an invoice is voided only when no money is applied to it: every
\* invoice with status VOID has amount_paid = 0 and no payment that is not
\* voided.
C30_VoidHasNoMoney ==
  \A i \in InvoiceRows :
    invoices[i].status = "VOID" =>
      invoices[i].amount_paid = 0 /\ NonVoidedOf(i) = {}

====
